---------------------------- MODULE Spec2Model ----------------------------
(***************************************************************************)
(* A model of the spinwinny backend's content-security validator           *)
(* (src/src/security/csv_validator.py) and of its analytics event store    *)
(* (src/src/services/analytics_service.py).                                *)
(*                                                                         *)
(* Text is a sequence of characters; a character is a one-character        *)
(* string, except for the two characters named below.  Python's dicts are  *)
(* records whose DOMAIN is the set of keys present; Python's None is the   *)
(* value None.                                                             *)
(***************************************************************************)
EXTENDS Integers, Sequences, FiniteSets, TLC

None == "None"

(***************************************************************************)
(* Characters.                                                             *)
(***************************************************************************)
\* U+00E9: a letter outside ASCII, two bytes in UTF-8.
EAcute == "U+00E9"
\* U+D800: a lone surrogate, which str.encode('utf-8') refuses.
Surrogate == "U+D800"

UpperLetters ==
  <<"A","B","C","D","E","F","G","H","I","J","K","L","M",
    "N","O","P","Q","R","S","T","U","V","W","X","Y","Z">>
LowerLetters ==
  <<"a","b","c","d","e","f","g","h","i","j","k","l","m",
    "n","o","p","q","r","s","t","u","v","w","x","y","z">>
Digits == {"0","1","2","3","4","5","6","7","8","9"}

Range(f) == { f[i] : i \in DOMAIN f }
AsciiLetters == Range(UpperLetters) \cup Range(LowerLetters)
\* str.strip() and the regex class \s
Whitespace == {" ", "\t", "\n", "\r", "\f"}
\* the regex class \w (str patterns: Unicode word characters)
WordChars == AsciiLetters \cup Digits \cup {"_", EAcute}

\* str.lower(), one character
LowerChar(c) ==
  IF c \in Range(UpperLetters)
  THEN LowerLetters[CHOOSE i \in DOMAIN UpperLetters : UpperLetters[i] = c]
  ELSE c
Lower(s) == SubSeq([i \in DOMAIN s |-> LowerChar(s[i])], 1, Len(s))

\* bytes of one character in UTF-8 (0: not encodable)
Utf8Bytes(c) == IF c = Surrogate THEN 0 ELSE IF c = EAcute THEN 2 ELSE 1
Encodable(s) == \A i \in DOMAIN s : s[i] # Surrogate
\* len(s.encode('utf-8')) of an encodable text
Utf8Len(s) == Len(s) + Cardinality({ i \in DOMAIN s : s[i] = EAcute })

(***************************************************************************)
(* Text helpers.  Every scan is by index or by halving, so that a text of  *)
(* more than a thousand characters is within reach.                        *)
(***************************************************************************)
\* acc folded over lo..hi in increasing order, by halving; the left half is
\* evaluated (its one-tuple built) before the right half starts
FoldRange(Op(_, _), base, lo, hi) ==
  LET RECURSIVE go(_, _, _)
      go(acc, l, h) ==
        IF l > h THEN acc
        ELSE IF l = h THEN <<Op(acc[1], l)>>
        ELSE LET m == (l + h) \div 2
                 left == go(acc, l, m)
             IN IF Len(left) = 1 THEN go(left, m + 1, h) ELSE left
  IN go(<<base>>, lo, hi)[1]

\* Body(expr), with expr evaluated once
With(expr, Body(_)) == CHOOSE out \in { Body(v) : v \in {expr} } : TRUE

Min(S) == CHOOSE x \in S : \A y \in S : x <= y
Max(S) == 0 - Min({ 0 - x : x \in S })
Repeat(c, n) == [i \in 1..n |-> c]

\* s[i:i+len(lit)] == lit
HasAt(s, i, lit) ==
  /\ i >= 1
  /\ i + Len(lit) - 1 <= Len(s)
  /\ \A j \in 1..Len(lit) : s[i + j - 1] = lit[j]
\* the same, ignoring case (lit in lower case)
HasAtCI(s, i, lit) ==
  /\ i >= 1
  /\ i + Len(lit) - 1 <= Len(s)
  /\ \A j \in 1..Len(lit) : LowerChar(s[i + j - 1]) = lit[j]
\* lit in s
Contains(s, lit) ==
  \E t \in {s} : \E i \in 1..(Len(t) - Len(lit) + 1) : HasAt(t, i, lit)
StartsWith(s, lit) == HasAt(s, 1, lit)
EndsWith(s, lit) == HasAt(s, Len(s) - Len(lit) + 1, lit)
\* the first index >= i whose character is outside class (Len(s)+1: none)
SkipClass(s, i, class) ==
  Min({ j \in i..Len(s) : s[j] \notin class } \cup {Len(s) + 1})
\* str.strip()
Strip(s) ==
  LET keep == { i \in DOMAIN s : s[i] \notin Whitespace } IN
  IF keep = {} THEN <<>>
  ELSE SubSeq(s, Min(keep), Max(keep))
\* s[:n]
Prefix(s, n) == SubSeq(s, 1, IF n < Len(s) THEN n ELSE Len(s))

(***************************************************************************)
(* csv.reader(io.StringIO(content)), dialect excel: the reader's state     *)
(* machine, fed the text line by line ('\n' ends a line), with the         *)
(* end-of-line step after each line.                                       *)
(***************************************************************************)
Newlines == {"\n", "\r"}
ParserInit ==
  [st |-> "START_RECORD", field |-> <<>>, row |-> <<>>, rows |-> <<>>,
   err |-> FALSE]

AddChar(p, c, st) == [p EXCEPT !.field = Append(@, c), !.st = st]
SaveField(p, st) ==
  [p EXCEPT !.row = Append(@, p.field), !.field = <<>>, !.st = st]

StartField(p, c) ==
  IF c \in Newlines THEN SaveField(p, "EAT_CRNL")
  ELSE IF c = "\"" THEN [p EXCEPT !.st = "IN_QUOTED_FIELD"]
  ELSE IF c = "," THEN SaveField(p, "START_FIELD")
  ELSE AddChar(p, c, "IN_FIELD")

ProcessChar(p, c) ==
  CASE p.st = "START_RECORD" ->
         IF c \in Newlines THEN [p EXCEPT !.st = "EAT_CRNL"]
         ELSE StartField(p, c)
    [] p.st = "START_FIELD" -> StartField(p, c)
    [] p.st = "IN_FIELD" ->
         IF c \in Newlines THEN SaveField(p, "EAT_CRNL")
         ELSE IF c = "," THEN SaveField(p, "START_FIELD")
         ELSE AddChar(p, c, "IN_FIELD")
    [] p.st = "IN_QUOTED_FIELD" ->
         IF c = "\"" THEN [p EXCEPT !.st = "QUOTE_IN_QUOTED_FIELD"]
         ELSE AddChar(p, c, "IN_QUOTED_FIELD")
    [] p.st = "QUOTE_IN_QUOTED_FIELD" ->
         IF c = "\"" THEN AddChar(p, c, "IN_QUOTED_FIELD")
         ELSE IF c = "," THEN SaveField(p, "START_FIELD")
         ELSE IF c \in Newlines THEN SaveField(p, "EAT_CRNL")
         ELSE AddChar(p, c, "IN_FIELD")
    [] p.st = "EAT_CRNL" ->
         IF c \in Newlines THEN p ELSE [p EXCEPT !.err = TRUE]

\* the row is returned when a line ends with the reader back at START_RECORD
EmitRow(p) ==
  IF p.st = "START_RECORD"
  THEN [p EXCEPT !.rows = Append(@, p.row), !.row = <<>>]
  ELSE p

ProcessEol(p) ==
  EmitRow(CASE p.st \in {"START_FIELD", "IN_FIELD", "QUOTE_IN_QUOTED_FIELD"} ->
                 SaveField(p, "START_RECORD")
            [] p.st = "EAT_CRNL" -> [p EXCEPT !.st = "START_RECORD"]
            [] OTHER -> p)

\* the input is exhausted inside a record: an open quoted field is saved
EndOfInput(p) ==
  IF p.st = "IN_QUOTED_FIELD"
  THEN [p EXCEPT !.rows = Append(@, Append(p.row, p.field)),
                 !.row = <<>>, !.field = <<>>, !.st = "START_RECORD"]
  ELSE p

\* [ok |-> no csv.Error, rows |-> list(csv.reader(io.StringIO(content)))]
ParseCsv(content) ==
  LET n == Len(content)
      step(p, i) ==
        IF p.err THEN p
        ELSE LET q == ProcessChar(p, content[i]) IN
             IF q.err THEN q
             ELSE IF content[i] = "\n" \/ i = n THEN ProcessEol(q)
             ELSE q
      end == FoldRange(step, ParserInit, 1, n)
  IN IF end.err THEN [ok |-> FALSE, rows |-> <<>>]
     ELSE [ok |-> TRUE, rows |-> EndOfInput(end).rows]

(***************************************************************************)
(* SecureCSVValidator: the class constants.                                *)
(***************************************************************************)
DANGEROUS_PREFIXES ==
  << <<"=">>, <<"+">>, <<"-">>, <<"@">>,
     <<"\t", "=">>, <<"\r", "=">>, <<"\n", "=">> >>

DANGEROUS_FUNCTIONS ==
  << <<"c","m","d">>, <<"e","x","e","c">>, <<"s","y","s","t","e","m">>,
     <<"s","h","e","l","l">>, <<"p","o","w","e","r","s","h","e","l","l">>,
     <<"b","a","s","h">>, <<"e","v","a","l">>,
     <<"j","a","v","a","s","c","r","i","p","t">>,
     <<"v","b","s","c","r","i","p","t">>, <<"m","a","c","r","o">>,
     <<"f","o","r","m","u","l","a">> >>

\* a risk tag f'<literal>{text}': the literal and the text formatted into it
Tag(literal, text) == <<literal, text>>

(***************************************************************************)
(* _check_csv_injection                                                    *)
(***************************************************************************)
\* re.search(r'=\s*[A-Z]+\s*\(', cell, re.IGNORECASE)
FormulaPatternAt(s, i) ==
  /\ s[i] = "="
  /\ LET a == SkipClass(s, i + 1, Whitespace)
         b == SkipClass(s, a, AsciiLetters)
         c == SkipClass(s, b, Whitespace)
     IN b > a /\ c <= Len(s) /\ s[c] = "("
FormulaPattern(s) == \E t \in {s} : \E i \in DOMAIN t : FormulaPatternAt(t, i)

\* the first prefix of the list the stripped cell starts with
PrefixRule(cell) ==
  LET hits == { k \in DOMAIN DANGEROUS_PREFIXES :
                  StartsWith(Strip(cell), DANGEROUS_PREFIXES[k]) }
  IN IF hits = {} THEN None
     ELSE Tag("dangerous_prefix_", Strip(DANGEROUS_PREFIXES[Min(hits)]))

\* the first function of the list found in cell.lower()
FunctionRule(cell) ==
  LET hits == { k \in DOMAIN DANGEROUS_FUNCTIONS :
                  Contains(Lower(cell), DANGEROUS_FUNCTIONS[k]) }
  IN IF hits = {} THEN None
     ELSE Tag("dangerous_function_", DANGEROUS_FUNCTIONS[Min(hits)])

\* a variant that looks for the functions before the prefixes
check_csv_injection_functions_first(cell) ==
  IF cell = <<>> THEN None
  ELSE IF FunctionRule(cell) # None THEN FunctionRule(cell)
  ELSE IF PrefixRule(cell) # None THEN PrefixRule(cell)
  ELSE IF FormulaPattern(cell) THEN Tag("formula_pattern", <<>>)
  ELSE None

check_csv_injection(cell) ==
  IF cell = <<>> THEN None
  ELSE IF PrefixRule(cell) # None THEN PrefixRule(cell)
  ELSE IF FunctionRule(cell) # None THEN FunctionRule(cell)
  ELSE IF FormulaPattern(cell) THEN Tag("formula_pattern", <<>>)
  ELSE None

(***************************************************************************)
(* XSS_PATTERNS, compiled with re.IGNORECASE | re.DOTALL; xss_regex.search *)
(***************************************************************************)
\* r'<tag[^>]*>': the tag's opening, then a '>' somewhere after it
OpenTagAt(s, i, tag) ==
  /\ HasAtCI(s, i, tag)
  /\ \E j \in (i + Len(tag))..Len(s) : s[j] = ">"
\* r'<tag[^>]*>.*?</tag>': the closing tag after the first '>'
PairedTagAt(s, i, tag, closing) ==
  /\ OpenTagAt(s, i, tag)
  /\ LET gt == Min({ j \in (i + Len(tag))..Len(s) : s[j] = ">" })
     IN \E k \in (gt + 1)..Len(s) : HasAtCI(s, k, closing)
\* r'on\w+\s*='
HandlerAt(s, i) ==
  /\ HasAtCI(s, i, <<"o","n">>)
  /\ LET a == SkipClass(s, i + 2, WordChars)
         b == SkipClass(s, a, Whitespace)
     IN a > i + 2 /\ b <= Len(s) /\ s[b] = "="

XssPatternAt(s, i) ==
  \/ PairedTagAt(s, i, <<"<","s","c","r","i","p","t">>,
                 <<"<","/","s","c","r","i","p","t",">">>)
  \/ HasAtCI(s, i, <<"j","a","v","a","s","c","r","i","p","t",":">>)
  \/ HasAtCI(s, i, <<"v","b","s","c","r","i","p","t",":">>)
  \/ HandlerAt(s, i)
  \/ OpenTagAt(s, i, <<"<","i","f","r","a","m","e">>)
  \/ OpenTagAt(s, i, <<"<","o","b","j","e","c","t">>)
  \/ OpenTagAt(s, i, <<"<","e","m","b","e","d">>)
  \/ OpenTagAt(s, i, <<"<","l","i","n","k">>)
  \/ OpenTagAt(s, i, <<"<","m","e","t","a">>)
  \/ PairedTagAt(s, i, <<"<","s","t","y","l","e">>,
                 <<"<","/","s","t","y","l","e",">">>)
XssSearch(s) == \E t \in {s} : \E i \in DOMAIN t : XssPatternAt(t, i)

(***************************************************************************)
(* html.unescape.  Of html.entities.html5 the table holds the names the    *)
(* model's texts spell; of the code points, printable ASCII, the ASCII     *)
(* whitespace and U+00E9.  Any other valid code point is the character     *)
(* OtherChar.                                                              *)
(***************************************************************************)
OtherChar == "U+OTHER"
Replacement == "U+FFFD"
\* U+0060, which a string of the language cannot hold
Backtick == "U+0060"
\* chr(32) .. chr(126)
Ascii ==
  <<" ","!","\"","#","$","%","&","'","(",")","*","+",",","-",".","/",
    "0","1","2","3","4","5","6","7","8","9",":",";","<","=",">","?",
    "@","A","B","C","D","E","F","G","H","I","J","K","L","M","N","O",
    "P","Q","R","S","T","U","V","W","X","Y","Z","[","\\","]","^","_",
    Backtick,"a","b","c","d","e","f","g","h","i","j","k","l","m","n","o",
    "p","q","r","s","t","u","v","w","x","y","z","{","|","}","~">>
HexDigits == Digits \cup {"a","b","c","d","e","f","A","B","C","D","E","F"}
DigitValue(c) ==
  IF c \in Digits THEN (CHOOSE k \in 17..26 : Ascii[k] = c) - 17
  ELSE (CHOOSE k \in 66..71 : Ascii[k] = LowerChar(c)) - 56
\* int(digits, base)
ParseInt(ds, base) ==
  FoldRange(LAMBDA acc, i : acc * base + DigitValue(ds[i]), 0, 1, Len(ds))

\* the numeric branch of _replace_charref
CharRef(num) ==
  IF num = 0 THEN <<Replacement>>
  ELSE IF num = 13 THEN <<"\r">>
  ELSE IF num \in 128..159 THEN <<OtherChar>>
  ELSE IF num \in 55296..57343 \/ num > 1114111 THEN <<Replacement>>
  ELSE IF \/ num \in (1..8) \cup {11} \cup (14..31) \cup (127..159)
          \/ num \in 64976..65007
          \/ num % 65536 \in {65534, 65535}
       THEN <<>>
  ELSE IF num \in 32..126 THEN <<Ascii[num - 31]>>
  ELSE IF num = 9 THEN <<"\t">>
  ELSE IF num = 10 THEN <<"\n">>
  ELSE IF num = 12 THEN <<"\f">>
  ELSE IF num = 233 THEN <<EAcute>>
  ELSE <<OtherChar>>

\* html.entities.html5, the part the model's texts spell
Html5 ==
  << <<"l","t",";">> , <<"l","t">>, <<"g","t",";">>, <<"g","t">>,
     <<"a","m","p",";">>, <<"a","m","p">>,
     <<"q","u","o","t",";">>, <<"q","u","o","t">>,
     <<"a","p","o","s",";">>, <<"c","o","l","o","n",";">>,
     <<"e","q","u","a","l","s",";">> >>
Html5Char ==
  << "<", "<", ">", ">", "&", "&", "\"", "\"", "'", ":", "=" >>
InHtml5(name) == \E k \in DOMAIN Html5 : Html5[k] = name
Html5Of(name) == Html5Char[CHOOSE k \in DOMAIN Html5 : Html5[k] = name]

\* the named branch of _replace_charref: the name, else its longest prefix
NamedRef(name) ==
  IF InHtml5(name) THEN <<Html5Of(name)>>
  ELSE LET xs == { x \in 2..(Len(name) - 1) : InHtml5(SubSeq(name, 1, x)) } IN
       IF xs = {} THEN <<"&">> \o name
       ELSE <<Html5Of(SubSeq(name, 1, Max(xs)))>>
            \o SubSeq(name, Max(xs) + 1, Len(name))

NameStop == {"\t", "\n", "\f", " ", "<", "&", "#", ";"}
\* the reference the regex of html.unescape matches at the '&' of index i:
\* [len |-> characters matched after the '&' (0: no match), text |-> decoded]
CharRefAt(s, i) ==
  LET n == Len(s)
      semi(j) == IF j <= n /\ s[j] = ";" THEN 1 ELSE 0
      isHex == i + 2 <= n /\ s[i + 1] = "#" /\ s[i + 2] \in {"x", "X"}
      decEnd == SkipClass(s, i + 2, Digits)
      hexEnd == SkipClass(s, i + 3, HexDigits)
      nameEnd == Min({SkipClass(s, i + 1, { s[j] : j \in DOMAIN s } \ NameStop),
                      i + 33})
  IN IF i + 1 <= n /\ s[i + 1] = "#" /\ decEnd > i + 2
     THEN [len |-> decEnd - i - 1 + semi(decEnd),
           text |-> CharRef(ParseInt(SubSeq(s, i + 2, decEnd - 1), 10))]
     ELSE IF isHex /\ hexEnd > i + 3
     THEN [len |-> hexEnd - i - 1 + semi(hexEnd),
           text |-> CharRef(ParseInt(SubSeq(s, i + 3, hexEnd - 1), 16))]
     ELSE IF nameEnd > i + 1
     THEN [len |-> nameEnd - i - 1 + semi(nameEnd),
           text |-> NamedRef(SubSeq(s, i + 1, nameEnd - 1 + semi(nameEnd)))]
     ELSE [len |-> 0, text |-> <<>>]

unescape(s) ==
  LET step(acc, i) ==
        IF i < acc.next THEN acc
        ELSE IF s[i] # "&" THEN [acc EXCEPT !.out = Append(@, s[i])]
        ELSE LET ref == CharRefAt(s, i) IN
             IF ref.len = 0 THEN [acc EXCEPT !.out = Append(@, s[i])]
             ELSE [out |-> acc.out \o ref.text, next |-> i + 1 + ref.len]
  IN FoldRange(step, [out |-> <<>>, next |-> 1], 1, Len(s)).out

(***************************************************************************)
(* _check_xss_payload                                                      *)
(***************************************************************************)
suspicious_chars == {"<", ">", "\"", "'", "&", "%", "\\"}
\* sum(1 for char in suspicious_chars if char in cell)
suspicious_count(cell) ==
  Cardinality({ ch \in suspicious_chars : \E i \in DOMAIN cell : cell[i] = ch })

\* a variant that matches the decoded form before the cell itself
check_xss_payload_decoded_first(cell) ==
  IF cell = <<>> THEN None
  ELSE IF unescape(cell) # cell /\ XssSearch(unescape(cell))
       THEN Tag("encoded_xss_payload", <<>>)
  ELSE IF XssSearch(cell) THEN Tag("xss_pattern_detected", <<>>)
  ELSE IF suspicious_count(cell) > 3
       THEN Tag("suspicious_character_sequence", <<>>)
  ELSE None

check_xss_payload(cell) ==
  IF cell = <<>> THEN None
  ELSE IF XssSearch(cell) THEN Tag("xss_pattern_detected", <<>>)
  ELSE IF unescape(cell) # cell /\ XssSearch(unescape(cell))
       THEN Tag("encoded_xss_payload", <<>>)
  ELSE IF suspicious_count(cell) > 3
       THEN Tag("suspicious_character_sequence", <<>>)
  ELSE None

(***************************************************************************)
(* _validate_csv_structure                                                 *)
(***************************************************************************)
max_columns == 50
max_rows == 10000

\* a variant whose column limit is off by one
validate_csv_structure_inclusive(text) ==
  With(ParseCsv(text), LAMBDA parsed :
  LET rows == parsed.rows
      wide == { i \in DOMAIN rows : Len(rows[i]) >= max_columns }
  IN IF ~parsed.ok
     THEN [valid |-> FALSE, error |-> <<"Invalid CSV format">>,
           security_risk |-> "malformed_csv"]
     ELSE IF rows = <<>>
     THEN [valid |-> FALSE, error |-> <<"CSV file is empty">>,
           security_risk |-> "empty_file"]
     ELSE IF wide # {}
     THEN [valid |-> FALSE,
           error |-> <<"Row has too many columns", Min(wide),
                       Len(rows[Min(wide)]), max_columns>>,
           security_risk |-> "excessive_columns"]
     ELSE IF Len(rows) > max_rows
     THEN [valid |-> FALSE,
           error |-> <<"File has too many rows", Len(rows), max_rows>>,
           security_risk |-> "excessive_rows"]
     ELSE [valid |-> TRUE, rows_processed |-> Len(rows)])

validate_csv_structure(text) ==
  With(ParseCsv(text), LAMBDA parsed :
  LET rows == parsed.rows
      wide == { i \in DOMAIN rows : Len(rows[i]) > max_columns }
  IN IF ~parsed.ok
     THEN [valid |-> FALSE, error |-> <<"Invalid CSV format">>,
           security_risk |-> "malformed_csv"]
     ELSE IF rows = <<>>
     THEN [valid |-> FALSE, error |-> <<"CSV file is empty">>,
           security_risk |-> "empty_file"]
     ELSE IF wide # {}
     THEN [valid |-> FALSE,
           error |-> <<"Row has too many columns", Min(wide),
                       Len(rows[Min(wide)]), max_columns>>,
           security_risk |-> "excessive_columns"]
     ELSE IF Len(rows) > max_rows
     THEN [valid |-> FALSE,
           error |-> <<"File has too many rows", Len(rows), max_rows>>,
           security_risk |-> "excessive_rows"]
     ELSE [valid |-> TRUE, rows_processed |-> Len(rows)])

(***************************************************************************)
(* _validate_content_security                                              *)
(***************************************************************************)
max_cell_length == 1000
sample_length == 50
Ellipsis == <<".", ".", ".">>
\* cell[:50] + '...' if len(cell) > 50 else cell
Sample(cell) ==
  IF Len(cell) > sample_length THEN Prefix(cell, sample_length) \o Ellipsis
  ELSE cell

\* one entry of security_issues, when the check returned a risk
Issue(type, cell, row_num, col_num, sample, risk) ==
  IF risk = None THEN <<>>
  ELSE << [type |-> type,
           location |-> [row |-> row_num, column |-> col_num],
           content |-> sample, risk |-> risk] >>

\* what the body of the inner loop appends for one cell
\* a variant that stops at the first check of a cell that fires
CellIssuesFirstOnly(cell, row_num, col_num) ==
  IF cell = <<>> THEN <<>>
  ELSE IF check_csv_injection(cell) # None
  THEN Issue("csv_injection", cell, row_num, col_num, Sample(cell),
             check_csv_injection(cell))
  ELSE IF check_xss_payload(cell) # None
  THEN Issue("xss_payload", cell, row_num, col_num, Sample(cell),
             check_xss_payload(cell))
  ELSE Issue("excessive_length", cell, row_num, col_num,
             <<"Cell length", Len(cell)>>,
             IF Len(cell) > max_cell_length
             THEN Tag("potential_buffer_overflow", <<>>) ELSE None)

CellIssues(cell, row_num, col_num) ==
  IF cell = <<>> THEN <<>>
  ELSE
    With(check_csv_injection(cell), LAMBDA injection_check :
      Issue("csv_injection", cell, row_num, col_num, Sample(cell),
            injection_check))
    \o
    With(check_xss_payload(cell), LAMBDA xss_check :
      Issue("xss_payload", cell, row_num, col_num, Sample(cell), xss_check))
    \o
    Issue("excessive_length", cell, row_num, col_num,
          <<"Cell length", Len(cell)>>,
          IF Len(cell) > max_cell_length
          THEN Tag("potential_buffer_overflow", <<>>) ELSE None)

\* the two loops: every row in order, every cell of it in order
CollectIssues(rows) ==
  FoldRange(LAMBDA acc, r :
              FoldRange(LAMBDA acc2, c :
                          With(rows[r][c], LAMBDA cell :
                               acc2 \o CellIssues(cell, r, c)),
                        acc, 1, Len(rows[r])),
            <<>>, 1, Len(rows))

\* a variant whose rejection names no security_risk
validate_content_security_unflagged(text) ==
  With(ParseCsv(text), LAMBDA parsed :
  With(CollectIssues(parsed.rows), LAMBDA security_issues :
     IF security_issues # <<>>
     THEN [valid |-> FALSE,
           error |-> <<"Security threats detected", Len(security_issues)>>,
           security_issues |-> security_issues]
     ELSE [valid |-> TRUE]))

validate_content_security(text) ==
  With(ParseCsv(text), LAMBDA parsed :
  With(CollectIssues(parsed.rows), LAMBDA security_issues :
     IF ~parsed.ok
     THEN [valid |-> FALSE,
           error |-> <<"Content security validation failed">>,
           security_risk |-> "validation_error"]
     ELSE IF security_issues # <<>>
     THEN [valid |-> FALSE,
           error |-> <<"Security threats detected", Len(security_issues)>>,
           security_risk |-> "content_threats",
           security_issues |-> security_issues]
     ELSE [valid |-> TRUE]))

(***************************************************************************)
(* validate_file_security                                                  *)
(***************************************************************************)
\* hashlib.sha256(text.encode('utf-8')).hexdigest(): the digest names its
\* input, two inputs never sharing a digest
Sha256(text) == <<"sha256", text>>

DotCsv == <<".", "c", "s", "v">>

\* a variant that looks at the extension before the size
validate_file_security_extension_first(file_content, file_name, max_size) ==
  IF ~Encodable(file_content)
  THEN [valid |-> FALSE, error |-> <<"Security validation failed">>,
        security_risk |-> "validation_error"]
  ELSE IF file_name # <<>> /\ ~EndsWith(Lower(file_name), DotCsv)
  THEN [valid |-> FALSE, error |-> <<"Invalid file extension">>,
        security_risk |-> "invalid_extension"]
  ELSE IF Utf8Len(file_content) > max_size
  THEN [valid |-> FALSE,
        error |-> <<"File size exceeds maximum limit", Utf8Len(file_content),
                    max_size>>,
        security_risk |-> "file_size_exceeded"]
  ELSE With(validate_csv_structure(file_content), LAMBDA csv_validation :
       IF ~csv_validation.valid THEN csv_validation
       ELSE With(validate_content_security(file_content),
                 LAMBDA security_validation :
            IF ~security_validation.valid THEN security_validation
            ELSE [valid |-> TRUE,
                  file_size |-> Utf8Len(file_content),
                  file_hash |-> Sha256(file_content),
                  rows_processed |-> csv_validation.rows_processed,
                  security_checks_passed |-> TRUE]))

validate_file_security(file_content, file_name, max_size) ==
  IF ~Encodable(file_content)
  THEN [valid |-> FALSE, error |-> <<"Security validation failed">>,
        security_risk |-> "validation_error"]
  ELSE IF Utf8Len(file_content) > max_size
  THEN [valid |-> FALSE,
        error |-> <<"File size exceeds maximum limit", Utf8Len(file_content),
                    max_size>>,
        security_risk |-> "file_size_exceeded"]
  ELSE IF file_name # <<>> /\ ~EndsWith(Lower(file_name), DotCsv)
  THEN [valid |-> FALSE, error |-> <<"Invalid file extension">>,
        security_risk |-> "invalid_extension"]
  ELSE IF ~Encodable(file_content)
  THEN [valid |-> FALSE, error |-> <<"File contains invalid characters">>,
        security_risk |-> "encoding_error"]
  ELSE With(validate_csv_structure(file_content), LAMBDA csv_validation :
       IF ~csv_validation.valid THEN csv_validation
       ELSE With(validate_content_security(file_content),
                 LAMBDA security_validation :
            IF ~security_validation.valid THEN security_validation
            ELSE [valid |-> TRUE,
                  file_size |-> Utf8Len(file_content),
                  file_hash |-> Sha256(file_content),
                  rows_processed |-> csv_validation.rows_processed,
                  security_checks_passed |-> TRUE]))

(***************************************************************************)
(* sanitize_cell_content                                                   *)
(***************************************************************************)
sanitized_length == 1000

\* str.replace(old, new), old one character long
Replace(s, old, new) ==
  LET step(acc, i) == IF s[i] = old THEN acc \o new ELSE Append(acc, s[i])
  IN FoldRange(step, <<>>, 1, Len(s))

\* html.escape(s, quote): the ampersand first, then the angle brackets,
\* then (quote) the two quote characters
escape(s, quote) ==
  LET amp == Replace(s, "&", <<"&","a","m","p",";">>)
      lt == Replace(amp, "<", <<"&","l","t",";">>)
      gt == Replace(lt, ">", <<"&","g","t",";">>)
  IN IF quote
     THEN Replace(Replace(gt, "\"", <<"&","q","u","o","t",";">>),
                  "'", <<"&","#","x","2","7",";">>)
     ELSE gt

\* the loop over DANGEROUS_PREFIXES: each prefix the stripped cell starts
\* with is cut off, in the order of the list
StripPrefixes(cell) ==
  LET step(c, k) ==
        LET prefix == DANGEROUS_PREFIXES[k]
            t == Strip(c)
        IN IF StartsWith(t, prefix)
           THEN Strip(SubSeq(t, Len(prefix) + 1, Len(t)))
           ELSE c
  IN FoldRange(step, cell, 1, Len(DANGEROUS_PREFIXES))

\* re.sub(lit, repl, s, flags=re.IGNORECASE) for a literal in lower case
SubLiteral(s, lit, repl) ==
  LET step(acc, i) ==
        IF i < acc.next THEN acc
        ELSE IF HasAtCI(s, i, lit)
             THEN [out |-> acc.out \o repl, next |-> i + Len(lit)]
             ELSE [acc EXCEPT !.out = Append(@, s[i])]
  IN FoldRange(step, [out |-> <<>>, next |-> 1], 1, Len(s)).out

\* the index of the '=' that ends the match of r'on\w+\s*=' at i
HandlerEnd(s, i) == SkipClass(s, SkipClass(s, i + 2, WordChars), Whitespace)

\* re.sub(r'on\w+\s*=', '', s, flags=re.IGNORECASE)
SubHandlers(s) ==
  LET step(acc, i) ==
        IF i < acc.next THEN acc
        ELSE IF HandlerAt(s, i)
             THEN [acc EXCEPT !.next = HandlerEnd(s, i) + 1]
             ELSE [acc EXCEPT !.out = Append(@, s[i])]
  IN FoldRange(step, [out |-> <<>>, next |-> 1], 1, Len(s)).out

\* cell[:1000] + '...' if len(cell) > 1000
Truncate(s) ==
  IF Len(s) > sanitized_length THEN Prefix(s, sanitized_length) \o Ellipsis
  ELSE s

\* a variant that leaves the quote characters as they are
sanitize_cell_content_quotes_kept(cell) ==
  IF cell = <<>> THEN cell
  ELSE Truncate(SubHandlers(
         SubLiteral(
           SubLiteral(escape(StripPrefixes(cell), FALSE),
                      <<"j","a","v","a","s","c","r","i","p","t",":">>,
                      <<"j","a","v","a","s","c","r","i","p","t","_">>),
           <<"v","b","s","c","r","i","p","t",":">>,
           <<"v","b","s","c","r","i","p","t","_">>)))

sanitize_cell_content(cell) ==
  IF cell = <<>> THEN cell
  ELSE Truncate(SubHandlers(
         SubLiteral(
           SubLiteral(escape(StripPrefixes(cell), TRUE),
                      <<"j","a","v","a","s","c","r","i","p","t",":">>,
                      <<"j","a","v","a","s","c","r","i","p","t","_">>),
           <<"v","b","s","c","r","i","p","t",":">>,
           <<"v","b","s","c","r","i","p","t","_">>)))

(***************************************************************************)
(* process_secure_csv                                                      *)
(***************************************************************************)
EntryHeaders ==
  { <<"e","n","t","r","y">>, <<"n","a","m","e">>, <<"i","t","e","m">> }

\* the index (from 1) of the first header that is an entry header, else
\* of the first column
entry_column(headers) ==
  LET hits == { i \in DOMAIN headers : Lower(headers[i]) \in EntryHeaders }
  IN IF hits = {} THEN 1 ELSE Min(hits)

\* a variant that takes the entries from the header row on
extract_entries_with_header(sanitized_rows, column) ==
  LET step(entries, r) ==
        LET row == sanitized_rows[r] IN
        IF Len(row) >= column /\ Strip(row[column]) # <<>>
        THEN Append(entries, Strip(row[column]))
        ELSE entries
  IN FoldRange(step, <<>>, 1, Len(sanitized_rows))

\* the loop over sanitized_rows[1:]
extract_entries(sanitized_rows, column) ==
  LET step(entries, r) ==
        LET row == sanitized_rows[r] IN
        IF Len(row) >= column /\ Strip(row[column]) # <<>>
        THEN Append(entries, Strip(row[column]))
        ELSE entries
  IN FoldRange(step, <<>>, 2, Len(sanitized_rows))

process_secure_csv(file_content, file_name, max_size) ==
  With(validate_file_security(file_content, file_name, max_size),
       LAMBDA validation_result :
  IF ~validation_result.valid THEN validation_result
  ELSE LET rows == ParseCsv(file_content).rows
           sanitized_rows ==
             [r \in DOMAIN rows |->
               [c \in DOMAIN rows[r] |-> sanitize_cell_content(rows[r][c])]]
           entries == extract_entries(sanitized_rows,
                                      entry_column(sanitized_rows[1]))
       IN [success |-> TRUE,
           entries |-> entries,
           total_rows |-> Len(sanitized_rows) - 1,
           valid_entries |-> Len(entries),
           file_hash |-> validation_result.file_hash,
           security_validated |-> TRUE,
           sanitized |-> TRUE])

(***************************************************************************)
(* CSVService.validate_csv_file and import_csv                             *)
(***************************************************************************)
csv_max_file_size == 10485760
max_entry_length == 100
required_headers == { <<"e","n","t","r","y">>, <<"n","a","m","e">> }

\* the body of the loop over rows[1:]: row i (the header is row 1) adds an
\* entry, adds an error, or is skipped
validate_row(acc, headers, row, i) ==
  IF row = <<>> \/ \A c \in DOMAIN row : Strip(row[c]) = <<>> THEN acc
  ELSE LET hits == { j \in DOMAIN headers :
                       headers[j] \in required_headers /\ j <= Len(row) }
           entry_name == IF hits = {} THEN <<>> ELSE Strip(row[Min(hits)])
       IN IF entry_name = <<>>
          THEN [acc EXCEPT !.errors = Append(@, <<i, "Missing entry name">>)]
          ELSE IF Len(entry_name) > max_entry_length
          THEN [acc EXCEPT
                  !.errors = Append(@, <<i, "Entry name too long">>)]
          ELSE [acc EXCEPT !.valid_entries = Append(@, entry_name)]

\* a variant that stops at the first row it rejects
validate_rows_aborting(headers, rows) ==
  LET step(acc, i) ==
        IF acc.errors # <<>> THEN acc
        ELSE validate_row(acc, headers, rows[i], i)
  IN FoldRange(step, [valid_entries |-> <<>>, errors |-> <<>>], 2, Len(rows))

validate_rows(headers, rows) ==
  LET step(acc, i) == validate_row(acc, headers, rows[i], i)
  IN FoldRange(step, [valid_entries |-> <<>>, errors |-> <<>>], 2, Len(rows))

validate_csv_file(file_content) ==
  IF ~Encodable(file_content)
  THEN [valid |-> FALSE, error |-> <<"Validation error">>]
  ELSE IF Utf8Len(file_content) > csv_max_file_size
  THEN [valid |-> FALSE, error |-> <<"File size exceeds maximum limit">>]
  ELSE With(ParseCsv(file_content), LAMBDA parsed :
       LET rows == parsed.rows IN
       IF ~parsed.ok
       THEN [valid |-> FALSE, error |-> <<"CSV parsing error">>]
       ELSE IF rows = <<>>
       THEN [valid |-> FALSE, error |-> <<"CSV file is empty">>]
       ELSE LET headers == [h \in DOMAIN rows[1] |-> Lower(Strip(rows[1][h]))]
            IN IF \A h \in DOMAIN headers : headers[h] \notin required_headers
               THEN [valid |-> FALSE,
                     error |-> <<"CSV must contain at least one column named entry or name">>]
               ELSE With(validate_rows(headers, rows), LAMBDA acc :
                    IF acc.valid_entries = <<>>
                    THEN [valid |-> FALSE,
                          error |-> <<"No valid entries found in CSV">>]
                    ELSE [valid |-> TRUE,
                          entries |-> acc.valid_entries,
                          total_rows |-> Len(rows) - 1,
                          valid_entries |-> Len(acc.valid_entries),
                          errors |-> acc.errors]))

import_csv(file_content) ==
  With(validate_csv_file(file_content), LAMBDA validation_result :
  IF ~validation_result.valid
  THEN [success |-> FALSE, error |-> validation_result.error]
  ELSE [success |-> TRUE,
        entries |-> validation_result.entries,
        imported_count |-> validation_result.valid_entries,
        total_rows |-> validation_result.total_rows,
        warnings |-> validation_result.errors])

(***************************************************************************)
(* CSVService.validate_data_integrity                                      *)
(***************************************************************************)
\* set(data)
SetOf(data) == { data[i] : i \in DOMAIN data }

\* a / b as Python's true division gives it for 0 <= a <= b, b > 0: the
\* fraction in lowest terms (1.0 is <<1, 1>>, 0.0 is <<0, 1>>)
RECURSIVE Gcd(_, _)
Gcd(a, b) == IF b = 0 THEN a ELSE Gcd(b, a % b)
Ratio(a, b) == <<a \div Gcd(a, b), b \div Gcd(a, b)>>

\* a variant that compares the two lists as they are, position by position
validate_data_integrity_as_lists(original_data, processed_data) ==
  LET original_set == SetOf(original_data)
      processed_set == SetOf(processed_data)
      missing_entries == original_set \ processed_set
      extra_entries == processed_set \ original_set
  IN [passed |-> original_data = processed_data,
      original_count |-> Len(original_data),
      processed_count |-> Len(processed_data),
      missing_entries |-> missing_entries,
      extra_entries |-> extra_entries,
      integrity_score |->
        IF original_data # <<>>
        THEN Ratio(Cardinality(processed_set \cap original_set),
                   Cardinality(original_set))
        ELSE Ratio(1, 1)]

\* a variant whose score is taken over the processed entries
validate_data_integrity_over_processed(original_data, processed_data) ==
  LET original_set == SetOf(original_data)
      processed_set == SetOf(processed_data)
      missing_entries == original_set \ processed_set
      extra_entries == processed_set \ original_set
  IN [passed |-> missing_entries = {} /\ extra_entries = {},
      original_count |-> Len(original_data),
      processed_count |-> Len(processed_data),
      missing_entries |-> missing_entries,
      extra_entries |-> extra_entries,
      integrity_score |->
        IF processed_data # <<>>
        THEN Ratio(Cardinality(processed_set \cap original_set),
                   Cardinality(processed_set))
        ELSE Ratio(1, 1)]

validate_data_integrity(original_data, processed_data) ==
  LET original_set == SetOf(original_data)
      processed_set == SetOf(processed_data)
      missing_entries == original_set \ processed_set
      extra_entries == processed_set \ original_set
  IN [passed |-> missing_entries = {} /\ extra_entries = {},
      original_count |-> Len(original_data),
      processed_count |-> Len(processed_data),
      missing_entries |-> missing_entries,
      extra_entries |-> extra_entries,
      integrity_score |->
        IF original_data # <<>>
        THEN Ratio(Cardinality(processed_set \cap original_set),
                   Cardinality(original_set))
        ELSE Ratio(1, 1)]

(***************************************************************************)
(* CSVService.export_entries_csv.  An argument is a list of entries or a   *)
(* value that cannot be iterated over.  Of the text csv.writer makes the   *)
(* model keeps the rows and their fields, not the quoting.  The call ends  *)
(* by returning the text or, the except branch logging and re-raising, by  *)
(* raising the exception of the loop.                                      *)
(***************************************************************************)
PyList(entries) == <<"list", entries>>
PyNone == <<"NoneType">>
ExportHeader == <<"Entry", "Weight", "Category", "Active", "Created">>
export_entries_csv(entries, timestamp) ==
  IF entries[1] # "list"
  THEN [outcome |-> "raised", value |-> <<"TypeError">>]
  ELSE [outcome |-> "returned",
        value |-> <<ExportHeader>> \o
                    [i \in DOMAIN entries[2] |->
                       <<entries[2][i], 1, "general", "TRUE", timestamp>>]]

(***************************************************************************)
(* The inputs of the validator: texts put together from a few pieces, and  *)
(* the texts at the limits of the code.                                    *)
(***************************************************************************)
MaxPieces == 4
SmallMaxFileSize == 3
DefaultMaxFileSize == 10485760

RECURSIVE Flatten(_)
Flatten(pieces) ==
  IF pieces = <<>> THEN <<>> ELSE Head(pieces) \o Flatten(Tail(pieces))
TextsOf(pieces, k) ==
  { Flatten(ps) : ps \in UNION { [1..j -> pieces] : j \in 0..k } }

ContentPieces ==
  { <<",">>, <<"\n">>, <<"=">>, <<"o","n","x","=">>, <<"a">>, <<"\"">> }
LimitContents ==
  { Repeat("a", max_cell_length),
    Repeat("a", max_cell_length + 1),
    <<"=">> \o Repeat("a", max_cell_length),
    <<"=", "o", "n", "x", "=">> \o Repeat("a", max_cell_length),
    <<"a", ",", "=", "o", "n", "x", "=">> \o Repeat("a", max_cell_length)
      \o <<"\n", "=">>,
    Repeat(",", max_columns - 1),
    Repeat(",", max_columns),
    Repeat("\n", max_rows),
    Repeat("\n", max_rows + 1),
    Repeat(",", max_columns) \o Repeat("\n", max_rows + 1),
    <<"=", "\n">> \o Repeat(",", max_columns),
    <<"a", "\r", "b">>,
    Repeat(",", max_columns) \o <<"\n", "a", "\r", "b">>,
    <<EAcute, "a", "a">>,
    <<Surrogate>>,
    <<"=", Surrogate>> }
Contents == TextsOf(ContentPieces, MaxPieces) \cup LimitContents
Filenames ==
  { <<>>, <<"a", ".", "c", "s", "v">>, <<"A", ".", "C", "S", "V">>,
    <<"a", ".", "t", "x", "t">>, <<"c", "s", "v">> }
MaxFileSizes == {SmallMaxFileSize, DefaultMaxFileSize}

\* the contents handed to validate_csv_file: a header row, then a body
\* put together from a few pieces, and the contents at the limits
MaxCsvPieces == 5
CsvHeaderRows ==
  { <<"n","a","m","e","\n">>, <<"x",","," ","E","n","t","r","y"," ","\n">>,
    <<"n","a","m","e",",","e","n","t","r","y","\n">>, <<"x","\n">> }
CsvBodyPieces == { <<"a">>, <<" ">>, <<",">>, <<"\n">> }
CsvLimitContents ==
  { <<>>,
    <<"n","a","m","e">>,
    <<"n","a","m","e","\n">> \o Repeat("a", max_entry_length),
    <<"n","a","m","e","\n"," ">> \o Repeat("a", max_entry_length) \o <<" ">>,
    <<"n","a","m","e","\n">> \o Repeat("a", max_entry_length + 1),
    <<"n","a","m","e","\n">> \o Repeat("a", max_entry_length + 1)
      \o <<"\n", "\n", ",", "\n", "a">>,
    <<"x",","," ","E","n","t","r","y"," ","\n",
      "a","\n", ",","b","\n", "a",","," ","\n", "\n", " ",","," ","\n",
      "a",",">> \o Repeat("a", max_entry_length + 1),
    <<"n","a","m","e",",","e","n","t","r","y","\n",
      "a","\n", ",","a","\n", "a">>,
    <<"n","a","m","e","\n","a","\r","b">>,
    <<"n","a","m","e","\n",Surrogate>> }
CsvContents ==
  { h \o b : h \in CsvHeaderRows, b \in TextsOf(CsvBodyPieces, MaxCsvPieces) }
    \cup CsvLimitContents

\* the lists handed to validate_data_integrity
MaxEntries == 3
EntryNames == { <<"a">>, <<"b">>, <<"c">> }
EntryLists == UNION { [1..n -> EntryNames] : n \in 0..MaxEntries }
\* the arguments of export_entries_csv: these lists, and None
ExportArguments == { PyList(entries) : entries \in EntryLists } \cup {PyNone}

\* the contents handed to process_secure_csv: a header row, then a body
\* put together from a few pieces
MaxBodyPieces == 4
HeaderRows ==
  { <<"n","a","m","e","\n">>, <<"x",",","I","t","e","m","\n">>,
    <<"x","\n">>, <<"\n">> }
BodyPieces == { <<"a">>, <<" ">>, <<",">>, <<"\n">>, <<"<">>, <<"=">> }
ProcessContents ==
  { h \o b : h \in HeaderRows, b \in TextsOf(BodyPieces, MaxBodyPieces) }
    \cup {<<>>}
ProcessFilenames == { <<>>, <<"a", ".", "t", "x", "t">> }

(***************************************************************************)
(* The inputs of the two cell checks: cells put together from a few pieces *)
(***************************************************************************)
MaxCellPieces == 4
CellPieces ==
  { <<"+">>, <<"=">>, <<" ">>, <<"C", "M", "D">>, <<"a", "(">>,
    <<"o", "n">>, <<"j","a","v","a","s","c","r","i","p","t">>,
    <<"&","c","o","l","o","n",";">> }
Cells == TextsOf(CellPieces, MaxCellPieces)

\* the cells handed to sanitize_cell_content: the characters it encodes, a
\* scheme, a handler, the prefixes, and the cells at the length limit
MaxSanitizePieces == 3
SanitizePieces ==
  { <<"=">>, <<" ">>, <<"+">>, <<"<", ">">>, <<"'", "\"">>, <<"&">>, <<"%">>,
    <<"J","a","v","a","s","c","r","i","p","t",":">>, <<"o","n","x">> }
SanitizeLimitCells ==
  { <<"=","c","m","d","|","'"," ","/","C"," ","c","a","l","c","'","!","A","0">>,
    Repeat("a", sanitized_length),
    Repeat("a", sanitized_length + 1),
    Repeat("a", sanitized_length - 2) \o <<"<">>,
    <<"=">> \o Repeat("a", sanitized_length + 1),
    <<"\t", "=", "a">> }
SanitizeCells ==
  TextsOf(SanitizePieces, MaxSanitizePieces) \cup SanitizeLimitCells
\* a check that has not run yet
NotRun == "not run"

VARIABLES
  content,         \* the text handed to validate_file_security
  filename,        \* its filename ('' when none is supplied)
  max_file_size,   \* SecureCSVValidator.max_file_size
  result,          \* what validate_file_security returned (None: not yet)
  vpc,             \* "call": before the call, "done": after it, "off"
  processed,       \* <<>>, or the one result process_secure_csv returned
  cell,            \* the cell handed to the two cell checks
  injection_check, \* what _check_csv_injection(cell) returned
  xss_check,       \* what _check_xss_payload(cell) returned
  sanitized        \* <<>>, or the one string sanitize_cell_content(cell) returned

VARIABLES
  events,           \* table analytics_events
  event_seq,        \* sqlite_sequence of analytics_events
  wheel_metrics,    \* table wheel_metrics
  winner_frequency, \* table winner_frequency
  user_engagement,  \* table user_engagement
  leaked,           \* an abandoned connection still holds the write lock
  pc,               \* per process: "idle", or "metrics" inside record_event
  args,             \* per process: the call in progress
  ret,              \* per process: what its last call returned
  history,          \* the record_event calls that returned, in order
  clock             \* the time CURRENT_TIMESTAMP reads, in seconds

VARIABLES
  csv_content,      \* the text handed to validate_csv_file and import_csv
  validation,       \* <<>>, or the one result validate_csv_file returned
  imported,         \* <<>>, or the one result import_csv returned
  original_data,    \* the first list handed to validate_data_integrity
  processed_data,   \* the second list handed to it
  integrity,        \* <<>>, or the one report it returned
  exported          \* <<>>, or how the last export_entries_csv call ended

VARIABLES
  wheel_rows,       \* table wheel, by share_id: the columns id and spin_count
  user_rows,        \* table user, by user_id: total_spins and last_active
  spin_result_rows, \* table spin_result, in the order of the commits
  spin_request,     \* per process: the record_spin request it is serving
  response,         \* per process: the last response it sent
  requests_started  \* number of record_spin requests begun

tables == <<events, event_seq, wheel_metrics, winner_frequency,
            user_engagement>>
analyticsVars == <<events, event_seq, wheel_metrics, winner_frequency,
                   user_engagement, leaked, pc, args, ret, history, clock>>

validatorVars == <<content, filename, max_file_size, result, vpc, processed>>
cellVars == <<cell, injection_check, xss_check, sanitized>>
csvVars == <<csv_content, validation, imported, original_data,
             processed_data, integrity, exported>>
wheelVars == <<wheel_rows, user_rows, spin_result_rows, spin_request,
               response, requests_started>>
vars == <<validatorVars, cellVars, analyticsVars, csvVars, wheelVars>>

(***************************************************************************)
(* The validator: SecureCSVValidator(max_file_size), then one call of      *)
(* validate_file_security(content, filename).                              *)
(***************************************************************************)
ValidatorInit ==
  /\ content \in Contents
  /\ filename \in Filenames
  /\ max_file_size \in MaxFileSizes
  /\ result = None
  /\ vpc = "call"
  /\ processed = <<>>

ValidatorOff ==
  /\ content = <<>>
  /\ filename = <<>>
  /\ max_file_size = DefaultMaxFileSize
  /\ result = None
  /\ vpc = "off"
  /\ processed = <<>>

ValidateFileSecurity ==
  /\ vpc = "call"
  /\ result' = validate_file_security(content, filename, max_file_size)
  /\ vpc' = "done"
  /\ UNCHANGED <<content, filename, max_file_size, processed, cellVars,
                 analyticsVars, csvVars,
                 wheelVars>>

(***************************************************************************)
(* process_secure_csv(content, filename), called once, next to a call of   *)
(* validate_file_security on the same content                              *)
(***************************************************************************)
ProcessInit ==
  /\ content \in ProcessContents
  /\ filename \in ProcessFilenames
  /\ max_file_size = DefaultMaxFileSize
  /\ result = None
  /\ vpc = "call"
  /\ processed = <<>>

ProcessSecureCsv ==
  /\ vpc # "off"
  /\ processed = <<>>
  /\ processed' = <<process_secure_csv(content, filename, max_file_size)>>
  /\ UNCHANGED <<content, filename, max_file_size, result, vpc, cellVars,
                 analyticsVars, csvVars,
                 wheelVars>>

(***************************************************************************)
(* The two cell checks, each called once on the cell                       *)
(***************************************************************************)
CellInit ==
  /\ cell \in Cells
  /\ injection_check = NotRun
  /\ xss_check = NotRun
  /\ sanitized = <<>>

CellOff ==
  /\ cell = <<>>
  /\ injection_check = None
  /\ xss_check = None
  /\ sanitized = <<>>

CheckCsvInjection ==
  /\ injection_check = NotRun
  /\ injection_check' = check_csv_injection(cell)
  /\ UNCHANGED <<cell, xss_check, sanitized, validatorVars, analyticsVars,
                 csvVars,
                 wheelVars>>

CheckXssPayload ==
  /\ xss_check = NotRun
  /\ xss_check' = check_xss_payload(cell)
  /\ UNCHANGED <<cell, injection_check, sanitized, validatorVars,
                 analyticsVars, csvVars,
                 wheelVars>>

(***************************************************************************)
(* sanitize_cell_content and _check_xss_payload, each called once on a     *)
(* cell that holds the characters the two of them look for                 *)
(***************************************************************************)
SanitizeInit ==
  /\ cell \in SanitizeCells
  /\ injection_check = None
  /\ xss_check = NotRun
  /\ sanitized = <<>>

SanitizeCellContent ==
  /\ sanitized = <<>>
  /\ sanitized' = <<sanitize_cell_content(cell)>>
  /\ UNCHANGED <<cell, injection_check, xss_check, validatorVars,
                 analyticsVars, csvVars,
                 wheelVars>>

(***************************************************************************)
(* AnalyticsService: the values a call carries                             *)
(***************************************************************************)
\* a value json.dumps writes and sqlite3 cannot bind: the list ['Alice']
ListValue == "['Alice']"
\* a value json.dumps rejects: the set {'Alice'}
SetValue == "{'Alice'}"
\* the truth value Python gives a str, a list or None
Truthy(v) == v \notin {None, ""}
\* sqlite3 binds None, str and int parameters
Bindable(v) == v # ListValue
EmptyDict == [k \in {} |-> None]
\* dict.get(key, default)
Get(d, key, default) == IF key \in DOMAIN d THEN d[key] ELSE default
\* json.dumps(event_data, sort_keys=True) raises TypeError on a set
Serializable(d) ==
  /\ Get(d, "winner", None) # SetValue
  /\ Get(d, "wheel_title", "") # SetValue
\* the keys the dicts of the model have, in the order of str.__lt__
SortedKeys == <<"a", "b", "total_entries", "wheel_title", "winner">>
KeyRank(k) == CHOOSE i \in DOMAIN SortedKeys : SortedKeys[i] = k
\* A dict as Python keeps it is the sequence of its (key, value) items in
\* insertion order, the keys distinct.  DictOf is the mapping of such a
\* dict, ItemsOf one dict with a given mapping.
DictOf(items) ==
  [k \in { items[i][1] : i \in DOMAIN items } |->
     items[CHOOSE i \in DOMAIN items : items[i][1] = k][2]]
ItemsOf(d) ==
  LET keys == SelectSeq(SortedKeys, LAMBDA k : k \in DOMAIN d)
  IN [i \in DOMAIN keys |-> <<keys[i], d[keys[i]]>>]
\* sorted(dct.items()), which json.dumps makes under sort_keys=True
sorted(items) ==
  LET before(i) == { j \in DOMAIN items :
                       KeyRank(items[j][1]) < KeyRank(items[i][1]) }
      nth(n) == CHOOSE i \in DOMAIN items : Cardinality(before(i)) = n - 1
  IN [n \in DOMAIN items |-> items[nth(n)]]
\* a variant that writes the items in insertion order
json_dumps_unsorted(items) == <<"json", items>>

\* json.dumps(items, sort_keys=True): the text is given by the items it
\* writes, in the order it writes them
json_dumps(items) == <<"json", sorted(items)>>
\* json.dumps(d, sort_keys=True) of a dict given by its mapping
Json(d) == json_dumps(ItemsOf(d))

\* the arguments of record_event (ip_address and user_agent are only stored)
Call(event_type, event_data, wheel_id, user_id, session_id) ==
  [event_type |-> event_type, event_data |-> event_data,
   wheel_id |-> wheel_id, user_id |-> user_id, session_id |-> session_id]

(***************************************************************************)
(* The four tables.  analytics_events is a sequence of rows in id order;   *)
(* wheel_metrics, winner_frequency and user_engagement are functions of    *)
(* the columns of their UNIQUE constraints.                                *)
(***************************************************************************)
NoRows == [k \in {} |-> None]

\* id INTEGER PRIMARY KEY AUTOINCREMENT: one more than the largest id the
\* table ever held (sqlite_sequence)
NextId(evs, seq) == Max({seq} \cup { evs[i].id : i \in DOMAIN evs }) + 1

\* a variant that writes over the newest row instead of adding one
InsertOrReplaceEvent(evs, seq, c) ==
  LET row == [id |-> NextId(evs, seq), event_type |-> c.event_type,
              event_data |-> Json(c.event_data), wheel_id |-> c.wheel_id,
              user_id |-> c.user_id, session_id |-> c.session_id]
  IN IF evs = <<>> THEN <<row>> ELSE [evs EXCEPT ![Len(evs)] = row]

\* INSERT INTO analytics_events (...) VALUES (...)
InsertEvent(evs, seq, c) ==
  Append(evs, [id |-> NextId(evs, seq), event_type |-> c.event_type,
               event_data |-> Json(c.event_data), wheel_id |-> c.wheel_id,
               user_id |-> c.user_id, session_id |-> c.session_id])

\* the rows WHERE wheel_id = ? AND event_type = 'wheel_spin'
SpinEvents(evs, w) ==
  { i \in DOMAIN evs : evs[i].wheel_id = w /\ evs[i].event_type = "wheel_spin" }
\* SELECT COUNT(DISTINCT user_id) over them: NULL is not counted
DistinctUsers(evs, w) ==
  Cardinality({ evs[i].user_id : i \in SpinEvents(evs, w) } \ {None})

\* a variant whose new row starts from one spin
UpsertWheelMetricsFromOne(wm, evs, c) ==
  LET w == c.wheel_id
      row == [wheel_title |-> Get(c.event_data, "wheel_title", ""),
              total_spins |->
                (IF w \in DOMAIN wm THEN wm[w].total_spins ELSE 1) + 1,
              unique_users |-> DistinctUsers(evs, w),
              total_entries |-> Get(c.event_data, "total_entries", 0)]
  IN [x \in DOMAIN wm \cup {w} |-> IF x = w THEN row ELSE wm[x]]

\* a variant that counts a user at every spin that names one
UpsertWheelMetricsCountingUp(wm, evs, c) ==
  LET w == c.wheel_id
      row == [wheel_title |-> Get(c.event_data, "wheel_title", ""),
              total_spins |->
                (IF w \in DOMAIN wm THEN wm[w].total_spins ELSE 0) + 1,
              unique_users |->
                (IF w \in DOMAIN wm THEN wm[w].unique_users ELSE 0) +
                (IF Truthy(c.user_id) THEN 1 ELSE 0),
              total_entries |-> Get(c.event_data, "total_entries", 0)]
  IN [x \in DOMAIN wm \cup {w} |-> IF x = w THEN row ELSE wm[x]]

\* INSERT OR REPLACE INTO wheel_metrics
UpsertWheelMetrics(wm, evs, c) ==
  LET w == c.wheel_id
      row == [wheel_title |-> Get(c.event_data, "wheel_title", ""),
              total_spins |->
                (IF w \in DOMAIN wm THEN wm[w].total_spins ELSE 0) + 1,
              unique_users |-> DistinctUsers(evs, w),
              total_entries |-> Get(c.event_data, "total_entries", 0)]
  IN [x \in DOMAIN wm \cup {w} |-> IF x = w THEN row ELSE wm[x]]

\* a variant that starts the count again at every win
UpsertWinnerFrequencyReset(wf, c) ==
  LET key == <<c.wheel_id, Get(c.event_data, "winner", None)>>
  IN [x \in DOMAIN wf \cup {key} |-> IF x = key THEN 1 ELSE wf[x]]

\* INSERT OR REPLACE INTO winner_frequency
UpsertWinnerFrequency(wf, c) ==
  LET key == <<c.wheel_id, Get(c.event_data, "winner", None)>>
      count == (IF key \in DOMAIN wf THEN wf[key] ELSE 0) + 1
  IN [x \in DOMAIN wf \cup {key} |-> IF x = key THEN count ELSE wf[x]]

\* a variant that stamps first_visit again at every event
UpsertUserEngagementRestamped(ue, c, current_timestamp) ==
  LET key == <<c.user_id, c.session_id>>
      old == IF key \in DOMAIN ue THEN ue[key]
             ELSE [total_spins |-> 0, total_wheels_created |-> 0,
                   engagement_score |-> 0]
      row == [first_visit |-> current_timestamp,
              last_visit |-> IF key \in DOMAIN ue THEN ue[key].last_visit
                             ELSE current_timestamp,
              total_spins |-> old.total_spins +
                (IF c.event_type = "wheel_spin" THEN 1 ELSE 0),
              total_wheels_created |-> old.total_wheels_created +
                (IF c.event_type = "wheel_created" THEN 1 ELSE 0),
              engagement_score |-> old.engagement_score + 1]
  IN [x \in DOMAIN ue \cup {key} |-> IF x = key THEN row ELSE ue[x]]

\* a variant that raises engagement_score only for spins
UpsertUserEngagementScoringSpins(ue, c, current_timestamp) ==
  LET key == <<c.user_id, c.session_id>>
      old == IF key \in DOMAIN ue THEN ue[key]
             ELSE [first_visit |-> current_timestamp,
                   total_spins |-> 0, total_wheels_created |-> 0,
                   engagement_score |-> 0]
      spun == IF c.event_type = "wheel_spin" THEN 1 ELSE 0
      row == [first_visit |-> old.first_visit,
              last_visit |-> current_timestamp,
              total_spins |-> old.total_spins + spun,
              total_wheels_created |-> old.total_wheels_created +
                (IF c.event_type = "wheel_created" THEN 1 ELSE 0),
              engagement_score |-> old.engagement_score + spun]
  IN [x \in DOMAIN ue \cup {key} |-> IF x = key THEN row ELSE ue[x]]

\* INSERT OR REPLACE INTO user_engagement: the table has UNIQUE(user_id,
\* session_id), so the row of the pair, if there is one, is replaced
UpsertUserEngagement(ue, c, current_timestamp) ==
  LET key == <<c.user_id, c.session_id>>
      old == IF key \in DOMAIN ue THEN ue[key]
             ELSE [first_visit |-> current_timestamp,
                   total_spins |-> 0, total_wheels_created |-> 0,
                   engagement_score |-> 0]
      row == [first_visit |-> old.first_visit,
              last_visit |-> current_timestamp,
              total_spins |-> old.total_spins +
                (IF c.event_type = "wheel_spin" THEN 1 ELSE 0),
              total_wheels_created |-> old.total_wheels_created +
                (IF c.event_type = "wheel_created" THEN 1 ELSE 0),
              engagement_score |-> old.engagement_score + 1]
  IN [x \in DOMAIN ue \cup {key} |-> IF x = key THEN row ELSE ue[x]]

\* a variant that takes every event of a wheel for a spin
update_metrics_any_type(db, evs, c, locked, current_timestamp) ==
  LET spin == Truthy(c.wheel_id)
      winner == Get(c.event_data, "winner", None)
      engaged == Truthy(c.user_id) /\ Truthy(c.session_id)
      db1 == IF spin
             THEN [db EXCEPT !.wheel_metrics = UpsertWheelMetrics(@, evs, c)]
             ELSE db
      db2 == IF spin /\ Truthy(winner)
             THEN [db1 EXCEPT !.winner_frequency = UpsertWinnerFrequency(@, c)]
             ELSE db1
      db3 == IF engaged
             THEN [db2 EXCEPT !.user_engagement =
                                UpsertUserEngagement(@, c, current_timestamp)]
             ELSE db2
  IN IF (spin \/ engaged) /\ locked
     THEN [db EXCEPT !.outcome = "failed"]
     ELSE [db3 EXCEPT !.outcome = "committed"]

\* a variant that commits after every statement
update_metrics_autocommit(db, evs, c, locked, current_timestamp) ==
  LET spin == c.event_type = "wheel_spin" /\ Truthy(c.wheel_id)
      winner == Get(c.event_data, "winner", None)
      engaged == Truthy(c.user_id) /\ Truthy(c.session_id)
      db1 == IF spin
             THEN [db EXCEPT !.wheel_metrics = UpsertWheelMetrics(@, evs, c)]
             ELSE db
      db2 == IF spin /\ Truthy(winner)
             THEN [db1 EXCEPT !.winner_frequency = UpsertWinnerFrequency(@, c)]
             ELSE db1
      db3 == IF engaged
             THEN [db2 EXCEPT !.user_engagement =
                                UpsertUserEngagement(@, c, current_timestamp)]
             ELSE db2
  IN IF spin /\ ~Bindable(Get(c.event_data, "wheel_title", ""))
     THEN [db EXCEPT !.outcome = "failed"]
     ELSE IF (spin \/ engaged) /\ locked
     THEN [db EXCEPT !.outcome = "failed"]
     ELSE IF spin /\ Truthy(winner) /\ ~Bindable(winner)
     THEN [db1 EXCEPT !.outcome = "failed"]
     ELSE [db3 EXCEPT !.outcome = "committed"]

(***************************************************************************)
(* _update_metrics: up to three statements in one transaction, then the    *)
(* commit.  outcome "committed": the commit was reached; "failed": a       *)
(* statement raised before any statement had run, the connection holds no  *)
(* lock; "abandoned": a statement raised after another had run, and the    *)
(* connection, which the except branch neither rolls back nor closes, is   *)
(* left holding the write lock with its changes uncommitted.  locked: some *)
(* other connection holds the write lock, so the first statement that      *)
(* writes raises 'database is locked'.                                     *)
(***************************************************************************)
update_metrics(db, evs, c, locked, current_timestamp) ==
  LET spin == c.event_type = "wheel_spin" /\ Truthy(c.wheel_id)
      winner == Get(c.event_data, "winner", None)
      engaged == Truthy(c.user_id) /\ Truthy(c.session_id)
      unchanged == [db EXCEPT !.outcome = "failed"]
      db1 == IF spin
             THEN [db EXCEPT !.wheel_metrics = UpsertWheelMetrics(@, evs, c)]
             ELSE db
      db2 == IF spin /\ Truthy(winner)
             THEN [db1 EXCEPT !.winner_frequency = UpsertWinnerFrequency(@, c)]
             ELSE db1
      db3 == IF engaged
             THEN [db2 EXCEPT !.user_engagement =
                                UpsertUserEngagement(@, c, current_timestamp)]
             ELSE db2
  IN IF spin /\ ~Bindable(Get(c.event_data, "wheel_title", ""))
     THEN unchanged
     ELSE IF (spin \/ engaged) /\ locked
     THEN unchanged
     ELSE IF spin /\ Truthy(winner) /\ ~Bindable(winner)
     THEN [db EXCEPT !.outcome = "abandoned"]
     ELSE [db3 EXCEPT !.outcome = "committed"]

(***************************************************************************)
(* get_wheel_analytics, get_global_analytics, export_analytics_data and    *)
(* verify_data_integrity.  Of the payloads the model keeps the parts read  *)
(* from the tables without a date: the fields made of timestamps           *)
(* (daily_activity, recent_spins, generated_at, created_at, updated_at,    *)
(* last_won) are left out.                                                 *)
(***************************************************************************)
WinnerLimit == 20
TopWheelsLimit == 10
HighSpins == 50
MediumSpins == 10

\* the orders in which a query may return the rows S (no ORDER BY applied)
Orderings(S) ==
  { f \in [1..Cardinality(S) -> S] :
      \A i, j \in 1..Cardinality(S) : i # j => f[i] # f[j] }
\* ORDER BY key DESC LIMIT limit: rows of equal key come in any order
OrderByDescLimit(S, key(_), limit) ==
  { Prefix(f, Min({Len(f), limit})) :
      f \in { g \in Orderings(S) :
                \A i \in 1..(Len(g) - 1) : key(g[i]) >= key(g[i + 1]) } }

\* SELECT winner_name, frequency_count FROM winner_frequency WHERE
\* wheel_id = ? ORDER BY frequency_count DESC LIMIT 20
winner_distributions(wf, w) ==
  OrderByDescLimit({ [winner |-> k[2], count |-> wf[k]] :
                       k \in { x \in DOMAIN wf : x[1] = w } },
                   LAMBDA row : row.count, WinnerLimit)

\* what get_wheel_analytics returns, the winner rows in the order dist
wheel_analytics(wm, w, dist) ==
  IF w \notin DOMAIN wm THEN [error |-> "Wheel not found"]
  ELSE [wheel_id |-> w,
        metrics |-> [total_spins |-> wm[w].total_spins,
                     unique_users |-> wm[w].unique_users,
                     total_entries |-> wm[w].total_entries],
        winner_distribution |-> dist]

\* SELECT ... FROM wheel_metrics ORDER BY total_spins DESC LIMIT 10
top_wheels(wm) ==
  OrderByDescLimit({ [wheel_id |-> w, title |-> wm[w].wheel_title,
                      total_spins |-> wm[w].total_spins,
                      unique_users |-> wm[w].unique_users] : w \in DOMAIN wm },
                   LAMBDA row : row.total_spins, TopWheelsLimit)

\* CASE WHEN total_spins >= 50 ... GROUP BY engagement_level, as a dict
engagement_level(total_spins) ==
  IF total_spins >= HighSpins THEN "High"
  ELSE IF total_spins >= MediumSpins THEN "Medium" ELSE "Low"
engagement_distribution(ue) ==
  LET level(k) == engagement_level(ue[k].total_spins)
      levels == { level(k) : k \in DOMAIN ue }
  IN [l \in levels |-> Cardinality({ k \in DOMAIN ue : level(k) = l })]

\* what get_global_analytics returns, the top wheels in the order top
global_analytics(evs, ue, top) ==
  LET spins == { i \in DOMAIN evs : evs[i].event_type = "wheel_spin" }
      distinct(col(_)) == Cardinality({ col(evs[i]) : i \in spins } \ {None})
  IN [global_metrics |->
        [total_wheels |-> distinct(LAMBDA row : row.wheel_id),
         total_spins |-> Cardinality(spins),
         unique_users |-> distinct(LAMBDA row : row.user_id),
         unique_sessions |-> distinct(LAMBDA row : row.session_id)],
      top_wheels |-> top,
      engagement_distribution |-> engagement_distribution(ue)]

\* what export_analytics_data wraps around the payload data
export_data(data) ==
  [success |-> TRUE,
   export_data |-> [data |-> data,
                    metadata |-> [export_type |-> "analytics",
                                  format |-> "json",
                                  data_hash |-> Sha256(Json(data)),
                                  integrity_verified |-> TRUE]],
   data_hash |-> Sha256(Json(data))]

\* data is a dict given by its items in insertion order
verify_data_integrity(data, expected_hash) ==
  IF ~Serializable(DictOf(data)) THEN FALSE
  ELSE Sha256(json_dumps(data)) = expected_hash

(***************************************************************************)
(* The calls of the analytics service.  Every record_event call is two     *)
(* steps, the insert with its commit and _update_metrics with its own.     *)
(***************************************************************************)
MaxCalls == 3
MaxClock == 2
Procs == {"p1", "p2"}
Calls ==
  { Call("wheel_spin", [winner |-> "Alice", total_entries |-> 5],
         "w1", "u1", "s1"),
    Call("wheel_spin", [winner |-> "Bob"], "w1", "u2", "s1"),
    Call("wheel_spin", [winner |-> "Alice", total_entries |-> 5],
         "w1", None, None),
    Call("wheel_spin", [winner |-> ListValue], "w1", "u2", "s1"),
    Call("wheel_spin", [wheel_title |-> ListValue], "w1", "u1", None),
    Call("wheel_spin", [winner |-> SetValue], "w1", "u1", "s1"),
    Call("wheel_spin", [winner |-> ""], "w2", "u1", "s1"),
    Call("wheel_spin", [winner |-> "Alice"], None, "u2", "s1"),
    Call("wheel_created", EmptyDict, "w1", "u1", "s1") }
\* the spins of wheel w1 among them, which two callers make at once
ConcurrentCalls ==
  { c \in Calls : c.wheel_id = "w1" /\ c.event_type = "wheel_spin"
                    /\ Serializable(c.event_data) /\ Truthy(c.user_id) }
\* the same with an event that is neither a spin nor a creation
EngagementCalls ==
  Calls \cup { Call("page_view", EmptyDict, None, "u1", "s1") }
\* the wheel ids asked of get_wheel_analytics and export_analytics_data
WheelIds == {"w1", "w2", "w9"}
\* the data and hashes handed to verify_data_integrity
VerifyData ==
  { <<>>, << <<"winner", "Alice">> >>, << <<"winner", SetValue>> >> }
\* the dicts of at most MaxItems items handed to it, in every insertion
\* order, and the hashes: those of the dicts, and None
MaxItems == 2
VerifyKeys == {"a", "b", "winner"}
VerifyValues(k) ==
  {"Alice"} \cup (IF k = "a" THEN {"Bob"} ELSE {})
            \cup (IF k = "winner" THEN {SetValue} ELSE {})
VerifyPairs == UNION { { <<k, v>> : v \in VerifyValues(k) } : k \in VerifyKeys }
VerifyItems ==
  { items \in UNION { [1..n -> VerifyPairs] : n \in 0..MaxItems } :
      \A i, j \in DOMAIN items : items[i][1] = items[j][1] => i = j }
VerifyHashes ==
  { Sha256(json_dumps(x)) : x \in { y \in VerifyItems : Serializable(DictOf(y)) } }
    \cup { Sha256(json_dumps_unsorted(x)) : x \in VerifyItems } \cup {<<None>>}

Running == [op |-> "running"]
\* what a call returned: the operation, what was asked, the value
Returned(op, request, value) ==
  [op |-> op, request |-> request, value |-> value]
Done(c, inserted, updated, returned) ==
  [call |-> c, inserted |-> inserted, updated |-> updated,
   returned |-> returned]

\* AnalyticsService(db_path) on a new database
AnalyticsInit ==
  /\ events = <<>>
  /\ event_seq = 0
  /\ wheel_metrics = NoRows
  /\ winner_frequency = NoRows
  /\ user_engagement = NoRows
  /\ leaked = FALSE
  /\ pc = [p \in Procs |-> "idle"]
  /\ args = [p \in Procs |-> None]
  /\ ret = [p \in Procs |-> [op |-> "none"]]
  /\ history = <<>>
  /\ clock = 0

CallsStarted == Len(history) + Cardinality({ p \in Procs : pc[p] # "idle" })

\* record_event up to its first commit.  json.dumps raising, or the insert
\* raising 'database is locked', ends the call with False and no row.
RecordEvent(p, c) ==
  /\ pc[p] = "idle"
  /\ CallsStarted < MaxCalls
  /\ IF ~Serializable(c.event_data) \/ leaked
     THEN /\ ret' = [ret EXCEPT ![p] = Returned("record_event", c, FALSE)]
          /\ history' = Append(history, Done(c, FALSE, FALSE, FALSE))
          /\ UNCHANGED <<tables, pc, args>>
     ELSE /\ events' = InsertEvent(events, event_seq, c)
          /\ event_seq' = NextId(events, event_seq)
          /\ pc' = [pc EXCEPT ![p] = "metrics"]
          /\ args' = [args EXCEPT ![p] = c]
          /\ ret' = [ret EXCEPT ![p] = Running]
          /\ UNCHANGED <<wheel_metrics, winner_frequency, user_engagement,
                         history>>
  /\ UNCHANGED <<leaked, clock, validatorVars, cellVars, csvVars,
                 wheelVars>>

\* the rest of record_event: _update_metrics, whose except branch only
\* logs, then return True
UpdateMetrics(p) ==
  /\ pc[p] = "metrics"
  /\ LET db == [wheel_metrics |-> wheel_metrics,
                winner_frequency |-> winner_frequency,
                user_engagement |-> user_engagement,
                outcome |-> "none"]
         after == update_metrics(db, events, args[p], leaked, clock)
     IN /\ wheel_metrics' = after.wheel_metrics
        /\ winner_frequency' = after.winner_frequency
        /\ user_engagement' = after.user_engagement
        /\ leaked' = (leaked \/ after.outcome = "abandoned")
        /\ history' = Append(history, Done(args[p], TRUE,
                                           after.outcome = "committed", TRUE))
  /\ pc' = [pc EXCEPT ![p] = "idle"]
  /\ args' = [args EXCEPT ![p] = None]
  /\ ret' = [ret EXCEPT ![p] = Returned("record_event", args[p], TRUE)]
  /\ UNCHANGED <<events, event_seq, clock, validatorVars, cellVars, csvVars,
                 wheelVars>>

\* _update_metrics while another caller's connection keeps the database
\* locked beyond the timeout of sqlite3.connect: the first statement that
\* writes raises 'database is locked'
UpdateMetricsBusy(p) ==
  /\ pc[p] = "metrics"
  /\ \E q \in Procs \ {p} : pc[q] = "metrics"
  /\ LET db == [wheel_metrics |-> wheel_metrics,
                winner_frequency |-> winner_frequency,
                user_engagement |-> user_engagement,
                outcome |-> "none"]
         after == update_metrics(db, events, args[p], TRUE, clock)
     IN /\ wheel_metrics' = after.wheel_metrics
        /\ winner_frequency' = after.winner_frequency
        /\ user_engagement' = after.user_engagement
        /\ history' = Append(history, Done(args[p], TRUE,
                                           after.outcome = "committed", TRUE))
  /\ pc' = [pc EXCEPT ![p] = "idle"]
  /\ args' = [args EXCEPT ![p] = None]
  /\ ret' = [ret EXCEPT ![p] = Returned("record_event", args[p], TRUE)]
  /\ UNCHANGED <<events, event_seq, leaked, clock, validatorVars, cellVars,
                 csvVars,
                 wheelVars>>

\* the process serving the call dies after the commit of the insert and
\* before _update_metrics: the call never returns, and the caller is free
\* for its next call
Crash(p) ==
  /\ pc[p] = "metrics"
  /\ pc' = [pc EXCEPT ![p] = "idle"]
  /\ args' = [args EXCEPT ![p] = None]
  /\ ret' = [ret EXCEPT ![p] = [op |-> "crashed"]]
  /\ history' = Append(history, Done(args[p], TRUE, FALSE, FALSE))
  /\ UNCHANGED <<tables, leaked, clock, validatorVars, cellVars, csvVars,
                 wheelVars>>

\* a second passes; the clock is taken not to be set back
Tick ==
  /\ clock < MaxClock
  /\ clock' = clock + 1
  /\ UNCHANGED <<tables, leaked, pc, args, ret, history, validatorVars,
                 cellVars, csvVars,
                 wheelVars>>

\* the garbage collector frees the abandoned connection: its transaction
\* is rolled back and the lock released
CollectGarbage ==
  /\ leaked
  /\ leaked' = FALSE
  /\ UNCHANGED <<tables, pc, args, ret, history, clock, validatorVars, cellVars,
                 csvVars,
                 wheelVars>>

\* a variant that creates the metrics row of a wheel it does not find
GetWheelAnalyticsCreating(p, wheel_id) ==
  /\ pc[p] = "idle"
  /\ wheel_metrics' =
       [x \in DOMAIN wheel_metrics \cup {wheel_id} |->
          IF x \in DOMAIN wheel_metrics THEN wheel_metrics[x]
          ELSE [wheel_title |-> "", total_spins |-> 0, unique_users |-> 0,
                total_entries |-> 0]]
  /\ \E dist \in winner_distributions(winner_frequency, wheel_id) :
       ret' = [ret EXCEPT ![p] =
                 Returned("get_wheel_analytics", wheel_id,
                          wheel_analytics(wheel_metrics, wheel_id, dist))]
  /\ UNCHANGED <<events, event_seq, winner_frequency, user_engagement,
                 leaked, pc, args, history, clock, validatorVars, cellVars, csvVars,
                 wheelVars>>

GetWheelAnalytics(p, wheel_id) ==
  /\ pc[p] = "idle"
  /\ \E dist \in winner_distributions(winner_frequency, wheel_id) :
       ret' = [ret EXCEPT ![p] =
                 Returned("get_wheel_analytics", wheel_id,
                          wheel_analytics(wheel_metrics, wheel_id, dist))]
  /\ UNCHANGED <<tables, leaked, pc, args, history, clock, validatorVars, cellVars,
                 csvVars,
                 wheelVars>>

GetGlobalAnalytics(p) ==
  /\ pc[p] = "idle"
  /\ \E top \in top_wheels(wheel_metrics) :
       ret' = [ret EXCEPT ![p] =
                 Returned("get_global_analytics", None,
                          global_analytics(events, user_engagement, top))]
  /\ UNCHANGED <<tables, leaked, pc, args, history, clock, validatorVars, cellVars,
                 csvVars,
                 wheelVars>>

\* export_analytics_data(wheel_id): the wheel's payload, or the global one
\* when wheel_id is None
ExportAnalyticsData(p, wheel_id) ==
  /\ pc[p] = "idle"
  /\ \E dist \in winner_distributions(winner_frequency, wheel_id),
        top \in top_wheels(wheel_metrics) :
       ret' = [ret EXCEPT ![p] =
                 Returned("export_analytics_data", wheel_id,
                   export_data(IF Truthy(wheel_id)
                               THEN wheel_analytics(wheel_metrics, wheel_id,
                                                    dist)
                               ELSE global_analytics(events, user_engagement,
                                                     top)))]
  /\ UNCHANGED <<tables, leaked, pc, args, history, clock, validatorVars, cellVars,
                 csvVars,
                 wheelVars>>

VerifyDataIntegrity(p, data, expected_hash) ==
  /\ pc[p] = "idle"
  /\ ret' = [ret EXCEPT ![p] =
               Returned("verify_data_integrity", <<data, expected_hash>>,
                        verify_data_integrity(data, expected_hash))]
  /\ UNCHANGED <<tables, leaked, pc, args, history, clock, validatorVars, cellVars,
                 csvVars,
                 wheelVars>>

(***************************************************************************)
(* routes/wheels.py: record_spin.  The request is served in two steps: the *)
(* queries that load the Wheel and the User into the session, and the      *)
(* commit, which writes the new SpinResult row and the columns changed on  *)
(* the loaded objects.  wheel.spin_count += 1 and user.total_spins += 1    *)
(* are computed from the values loaded, and the UPDATE statements set the  *)
(* columns to these numbers.  The columns not read by record_spin are left *)
(* out.                                                                    *)
(***************************************************************************)
MaxRequests == 3
\* request.get_json(): a dict, or None
PyDict(d) == <<"dict", d>>
SpinData ==
  { PyNone,
    PyDict([winner |-> "Alice", user_id |-> "u1", session_id |-> "s1"]),
    PyDict([winner |-> "Bob"]),
    PyDict([winner |-> None, user_id |-> "u1"]),
    PyDict([winner |-> "Alice", user_id |-> "u9"]) }
ShareIds == {"abc", "xyz", "nope"}
NoRequest == [pc |-> "idle"]
Response(status, success) == [status |-> status, success |-> success]

\* the wheels abc and xyz and the user u1 exist, nothing has been spun
WheelInit ==
  /\ wheel_rows = [s \in {"abc", "xyz"} |->
                     [id |-> IF s = "abc" THEN 1 ELSE 2, spin_count |-> 0]]
  /\ user_rows = [u \in {"u1"} |-> [total_spins |-> 0, last_active |-> 0]]
  /\ spin_result_rows = <<>>
  /\ spin_request = [p \in Procs |-> NoRequest]
  /\ response = [p \in Procs |-> Response(0, FALSE)]
  /\ requests_started = 0

\* the wheel routes are not used
WheelOff ==
  /\ wheel_rows = NoRows
  /\ user_rows = NoRows
  /\ spin_result_rows = <<>>
  /\ spin_request = [p \in Procs |-> [pc |-> "off"]]
  /\ response = [p \in Procs |-> Response(0, FALSE)]
  /\ requests_started = 0

\* record_spin up to the commit: Wheel.query.filter_by(share_id).first(),
\* the 404 for no wheel, data.get on the body (AttributeError on None, so
\* the 400 of the except branch), and User.query.filter_by(user_id).first()
RecordSpinQuery(p, share_id, data) ==
  /\ spin_request[p] = NoRequest
  /\ requests_started < MaxRequests
  /\ requests_started' = requests_started + 1
  /\ IF share_id \notin DOMAIN wheel_rows
     THEN /\ response' = [response EXCEPT ![p] = Response(404, FALSE)]
          /\ UNCHANGED spin_request
     ELSE IF data = PyNone
     THEN /\ response' = [response EXCEPT ![p] = Response(400, FALSE)]
          /\ UNCHANGED spin_request
     ELSE LET user_id == Get(data[2], "user_id", None) IN
          /\ spin_request' =
               [spin_request EXCEPT ![p] =
                  [pc |-> "loaded", share_id |-> share_id,
                   wheel |-> wheel_rows[share_id], data |-> data[2],
                   user |-> IF Truthy(user_id) /\ user_id \in DOMAIN user_rows
                            THEN <<user_rows[user_id]>> ELSE <<>>]]
          /\ UNCHANGED response
  /\ UNCHANGED <<wheel_rows, user_rows, spin_result_rows, validatorVars,
                 cellVars, analyticsVars, csvVars>>

\* db.session.add(spin_result) and db.session.commit(): the INSERT and the
\* UPDATEs in one transaction.  A null winner breaks NOT NULL: the commit
\* raises, nothing is written and the except branch answers 400.
RecordSpinCommit(p) ==
  /\ spin_request[p].pc = "loaded"
  /\ LET r == spin_request[p]
         winner == Get(r.data, "winner", "")
         user_id == Get(r.data, "user_id", None)
     IN IF winner = None
        THEN /\ response' = [response EXCEPT ![p] = Response(400, FALSE)]
             /\ UNCHANGED <<wheel_rows, user_rows, spin_result_rows>>
        ELSE /\ spin_result_rows' =
                  Append(spin_result_rows,
                         [wheel_id |-> r.wheel.id, winner |-> winner,
                          user_id |-> user_id,
                          session_id |-> Get(r.data, "session_id", None)])
             /\ wheel_rows' =
                  [wheel_rows EXCEPT ![r.share_id].spin_count =
                                       r.wheel.spin_count + 1]
             /\ user_rows' =
                  IF r.user = <<>> THEN user_rows
                  ELSE [user_rows EXCEPT ![user_id] =
                          [total_spins |-> r.user[1].total_spins + 1,
                           last_active |-> clock]]
             /\ response' = [response EXCEPT ![p] = Response(200, TRUE)]
  /\ spin_request' = [spin_request EXCEPT ![p] = NoRequest]
  /\ UNCHANGED <<requests_started, validatorVars, cellVars, analyticsVars,
                 csvVars>>

(***************************************************************************)
(* The specifications                                                      *)
(***************************************************************************)
(***************************************************************************)
(* CSVService: validate_csv_file and import_csv, each called once on a     *)
(* content; validate_data_integrity, called once on two lists              *)
(***************************************************************************)
CsvOff ==
  /\ csv_content = <<>>
  /\ validation = <<"off">>
  /\ imported = <<"off">>
  /\ original_data = <<>>
  /\ processed_data = <<>>
  /\ integrity = <<"off">>
  /\ exported = <<"off">>

CsvInit ==
  /\ csv_content \in CsvContents
  /\ validation = <<>>
  /\ imported = <<>>
  /\ original_data = <<>>
  /\ processed_data = <<>>
  /\ integrity = <<"off">>
  /\ exported = <<"off">>

ValidateCsvFile ==
  /\ validation = <<>>
  /\ validation' = <<validate_csv_file(csv_content)>>
  /\ UNCHANGED <<csv_content, imported, original_data, processed_data,
                 integrity, exported, validatorVars, cellVars,
                 analyticsVars,
                 wheelVars>>

ImportCsv ==
  /\ imported = <<>>
  /\ imported' = <<import_csv(csv_content)>>
  /\ UNCHANGED <<csv_content, validation, original_data, processed_data,
                 integrity, exported, validatorVars, cellVars,
                 analyticsVars,
                 wheelVars>>

IntegrityInit ==
  /\ csv_content = <<>>
  /\ validation = <<"off">>
  /\ imported = <<"off">>
  /\ original_data \in EntryLists
  /\ processed_data \in EntryLists
  /\ integrity = <<>>
  /\ exported = <<"off">>

ValidateDataIntegrity ==
  /\ integrity = <<>>
  /\ integrity' = <<validate_data_integrity(original_data, processed_data)>>
  /\ UNCHANGED <<csv_content, validation, imported, original_data,
                 processed_data, exported, validatorVars, cellVars,
                 analyticsVars,
                 wheelVars>>

\* the other csv service calls are not made
ExportInit ==
  /\ csv_content = <<>>
  /\ validation = <<"off">>
  /\ imported = <<"off">>
  /\ original_data = <<>>
  /\ processed_data = <<>>
  /\ integrity = <<"off">>
  /\ exported = <<>>

\* export_entries_csv(entries), datetime.now() reading the clock
ExportEntriesCsv(entries) ==
  /\ exported' = <<export_entries_csv(entries, clock)>>
  /\ UNCHANGED <<csv_content, validation, imported, original_data,
                 processed_data, integrity, validatorVars, cellVars,
                 analyticsVars,
                 wheelVars>>

\* one validate_file_security call on each content, filename and limit
InitValidator == ValidatorInit /\ CellOff /\ AnalyticsInit /\ CsvOff /\ WheelOff
ValidatorNext == ValidateFileSecurity
SpecValidator == InitValidator /\ [][ValidatorNext]_vars

\* process_secure_csv and validate_file_security on each content
InitProcess == ProcessInit /\ CellOff /\ AnalyticsInit /\ CsvOff /\ WheelOff
ProcessNext == ValidateFileSecurity \/ ProcessSecureCsv
SpecProcess == InitProcess /\ [][ProcessNext]_vars

\* validate_csv_file and import_csv on each content
InitCsv == ValidatorOff /\ CellOff /\ AnalyticsInit /\ CsvInit /\ WheelOff
CsvNext == ValidateCsvFile \/ ImportCsv
SpecCsv == InitCsv /\ [][CsvNext]_vars

\* validate_data_integrity on each pair of lists
InitIntegrity == ValidatorOff /\ CellOff /\ AnalyticsInit /\ IntegrityInit /\ WheelOff
IntegrityNext == ValidateDataIntegrity
SpecIntegrity == InitIntegrity /\ [][IntegrityNext]_vars

\* export_entries_csv on each argument while time passes
InitExport == ValidatorOff /\ CellOff /\ AnalyticsInit /\ ExportInit /\ WheelOff
ExportNext ==
  \/ \E entries \in ExportArguments : ExportEntriesCsv(entries)
  \/ Tick
SpecExport == InitExport /\ [][ExportNext]_vars

\* the two cell checks on each cell
InitCell == ValidatorOff /\ CellInit /\ AnalyticsInit /\ CsvOff /\ WheelOff
CellNext == CheckCsvInjection \/ CheckXssPayload
SpecCell == InitCell /\ [][CellNext]_vars

\* sanitize_cell_content and _check_xss_payload on each cell
InitSanitize == ValidatorOff /\ SanitizeInit /\ AnalyticsInit /\ CsvOff /\ WheelOff
SanitizeNext == CheckXssPayload \/ SanitizeCellContent
SpecSanitize == InitSanitize /\ [][SanitizeNext]_vars

\* the analytics service used by one caller, one call after the other
InitAnalytics == ValidatorOff /\ CellOff /\ AnalyticsInit /\ CsvOff /\ WheelOff
AnalyticsNext ==
  \E p \in {"p1"} :
    \/ \E c \in Calls : RecordEvent(p, c)
    \/ UpdateMetrics(p)
    \/ CollectGarbage
    \/ \E w \in WheelIds : GetWheelAnalytics(p, w)
    \/ GetGlobalAnalytics(p)
    \/ \E w \in WheelIds \cup {None} : ExportAnalyticsData(p, w)
    \/ \E d \in VerifyData, h \in { Sha256(json_dumps(x)) : x \in VerifyData } :
         VerifyDataIntegrity(p, d, h)
SpecAnalytics == InitAnalytics /\ [][AnalyticsNext]_vars

\* record_event called by two callers at once, with lock timeouts and
\* crashes between the two commits
InitConcurrent == ValidatorOff /\ CellOff /\ AnalyticsInit /\ CsvOff /\ WheelOff
ConcurrentNext ==
  \E p \in Procs :
    \/ \E c \in ConcurrentCalls : RecordEvent(p, c)
    \/ UpdateMetrics(p)
    \/ UpdateMetricsBusy(p)
    \/ Crash(p)
    \/ CollectGarbage
SpecConcurrent == InitConcurrent /\ [][ConcurrentNext]_vars

\* record_spin requests served by two processes at once
InitWheels == ValidatorOff /\ CellOff /\ AnalyticsInit /\ CsvOff /\ WheelInit
WheelsNext ==
  \E p \in Procs :
    \/ \E share_id \in ShareIds, data \in SpinData :
         RecordSpinQuery(p, share_id, data)
    \/ RecordSpinCommit(p)
SpecWheels == InitWheels /\ [][WheelsNext]_vars

\* verify_data_integrity called on dicts and hashes
InitVerify == ValidatorOff /\ CellOff /\ AnalyticsInit /\ CsvOff /\ WheelOff
VerifyNext ==
  \E d \in VerifyItems, h \in VerifyHashes : VerifyDataIntegrity("p1", d, h)
SpecVerify == InitVerify /\ [][VerifyNext]_vars

\* record_event calls of one caller while time passes
InitEngagement == ValidatorOff /\ CellOff /\ AnalyticsInit /\ CsvOff /\ WheelOff
EngagementNext ==
  \E p \in {"p1"} :
    \/ \E c \in EngagementCalls : RecordEvent(p, c)
    \/ UpdateMetrics(p)
    \/ CollectGarbage
    \/ Tick
SpecEngagement == InitEngagement /\ [][EngagementNext]_vars

(***************************************************************************)
(* Properties of validate_file_security                                    *)
(***************************************************************************)
\* the three checks of a cell, in the order the loop makes them
CheckTypes == <<"csv_injection", "xss_payload", "excessive_length">>
Fires(k, c) ==
  IF k = 1 THEN check_csv_injection(c) # None
  ELSE IF k = 2 THEN check_xss_payload(c) # None
  ELSE Len(c) > max_cell_length
\* the (row, column, check) triples of rows whose check fires on a
\* non-empty cell
FiredPairs(rows) ==
  { t \in UNION { UNION { { <<r, c, k>> : k \in DOMAIN CheckTypes } :
                            c \in DOMAIN rows[r] } : r \in DOMAIN rows } :
      \E x \in {rows[t[1]][t[2]]} : x # <<>> /\ Fires(t[3], x) }
\* the triple an issue stands for
PairOf(issue) ==
  <<issue.location.row, issue.location.column,
    CHOOSE k \in DOMAIN CheckTypes : CheckTypes[k] = issue.type>>
\* row-major order, the checks of one cell in their order
Precedes(s, t) ==
  \/ s[1] < t[1]
  \/ s[1] = t[1] /\ s[2] < t[2]
  \/ s[1] = t[1] /\ s[2] = t[2] /\ s[3] < t[3]
HasCsvExtension(name) ==
  /\ Len(name) >= 4
  /\ \A j \in 1..4 : LowerChar(name[Len(name) - 4 + j]) = DotCsv[j]
\* the rows pass the structure check
WithinStructure(rows) ==
  /\ rows # <<>>
  /\ \A r \in DOMAIN rows : Len(rows[r]) <= max_columns
  /\ Len(rows) <= max_rows
\* the content gets as far as the content pass
ReachesContentPass ==
  /\ Encodable(content)
  /\ Utf8Len(content) <= max_file_size
  /\ filename = <<>> \/ HasCsvExtension(filename)

\* C1: content that passes the size, extension and structure checks is
\* rejected with content_threats as soon as one check fires on one
\* non-empty cell, and security_issues then holds exactly one issue for
\* every (cell, check) pair that fired, in row-major order with rows and
\* columns counted from 1, and the result has no file_hash; when no check
\* fires the content is accepted.
C1_ExhaustiveContentChecks ==
  (vpc = "done" /\ ReachesContentPass) =>
    \A parsed \in {ParseCsv(content)} :
      (parsed.ok /\ WithinStructure(parsed.rows)) =>
        \A fired \in {FiredPairs(parsed.rows)} :
          IF fired = {} THEN result.valid
          ELSE /\ ~result.valid
               /\ result.security_risk = "content_threats"
               /\ "file_hash" \notin DOMAIN result
               /\ Len(result.security_issues) = Cardinality(fired)
               /\ \A i \in DOMAIN result.security_issues :
                    PairOf(result.security_issues[i]) \in fired
               /\ \A i \in 1..(Len(result.security_issues) - 1) :
                    Precedes(PairOf(result.security_issues[i]),
                             PairOf(result.security_issues[i + 1]))

\* a rejected content with three issues on the second cell of the first
\* row, then one on the first cell of the second row
C1_Witness ==
  /\ vpc = "done"
  /\ ~result.valid
  /\ result.security_risk = "content_threats"
  /\ Len(result.security_issues) = 4
  /\ \A i \in 1..3 :
       /\ result.security_issues[i].location = [row |-> 1, column |-> 2]
       /\ result.security_issues[i].type = CheckTypes[i]
  /\ result.security_issues[4].location = [row |-> 2, column |-> 1]

\* the risk of the first check that fails, in the order size, extension,
\* structure (parse, empty, columns, rows), content; None when none fails
FirstFailure ==
  IF Utf8Len(content) > max_file_size THEN "file_size_exceeded"
  ELSE IF filename # <<>> /\ ~HasCsvExtension(filename)
  THEN "invalid_extension"
  ELSE CHOOSE risk \in {"malformed_csv", "empty_file", "excessive_columns",
                        "excessive_rows", "content_threats", None} :
    \A parsed \in {ParseCsv(content)} :
      risk = IF ~parsed.ok THEN "malformed_csv"
             ELSE IF parsed.rows = <<>> THEN "empty_file"
             ELSE IF \E r \in DOMAIN parsed.rows :
                       Len(parsed.rows[r]) > max_columns
             THEN "excessive_columns"
             ELSE IF Len(parsed.rows) > max_rows THEN "excessive_rows"
             ELSE IF FiredPairs(parsed.rows) # {} THEN "content_threats"
             ELSE None

C3_ResultShape ==
  vpc = "done" =>
    IF result.valid
    THEN /\ DOMAIN result \cap {"security_risk", "security_issues"} = {}
         /\ "file_hash" \in DOMAIN result
         /\ result.file_hash = Sha256(content)
    ELSE /\ "security_risk" \in DOMAIN result
         /\ "file_hash" \notin DOMAIN result

\* an accepted content of several cells under a filename
C3_Witness ==
  /\ vpc = "done"
  /\ result.valid
  /\ filename # <<>>
  /\ \E i \in DOMAIN content : content[i] = ","
  /\ result.file_hash = Sha256(content)

(***************************************************************************)
(* Properties of the analytics service                                     *)
(***************************************************************************)
Quiescent == \A p \in Procs : pc[p] = "idle"

\* C4: whenever no record_event call is in progress, total_spins of every
\* wheel with a metrics row is the number of wheel_spin events the log
\* holds for that wheel.  (That total_spins never decreases is
\* TotalSpinsNeverDecreases below, which holds.)
C4_TotalSpinsCountsSpinEvents ==
  Quiescent =>
    \A w \in DOMAIN wheel_metrics :
      wheel_metrics[w].total_spins = Cardinality(SpinEvents(events, w))

TotalSpinsNeverDecreases ==
  [][\A w \in DOMAIN wheel_metrics :
       /\ w \in DOMAIN wheel_metrics'
       /\ wheel_metrics'[w].total_spins >= wheel_metrics[w].total_spins]_vars

\* C5: record_event returns True exactly when the event row and the
\* metrics update were both committed, and False as soon as one of the two
\* steps fails.
C5_FalseOnAnyFailure ==
  \A i \in DOMAIN history :
    history[i].returned = (history[i].inserted /\ history[i].updated)

\* evs2 is evs with one more row, whose id is above every id of evs
IsAppend(evs, evs2) ==
  /\ Len(evs2) = Len(evs) + 1
  /\ \A i \in DOMAIN evs : evs2[i] = evs[i] /\ evs2[Len(evs2)].id > evs[i].id

\* C6: every step leaves the rows of the event log as they are; the step
\* of a record_event call that carries out the insert adds exactly one
\* row, with an id above every earlier id, and no other step of any
\* operation adds, changes or removes a row.
C6_AppendOnlyLog ==
  [][IF \E p \in Procs : pc[p] = "idle" /\ pc'[p] = "metrics"
     THEN IsAppend(events, events')
     ELSE events' = events]_vars

\* three events in the log, one of them with its metrics update failed,
\* and a report read afterwards
C6_Witness ==
  /\ Len(events) = 3
  /\ \A i \in 1..3 : events[i].id = i
  /\ \E i \in DOMAIN history : history[i].inserted /\ ~history[i].updated
  /\ ret["p1"].op = "export_analytics_data"

\* C7: when every wheel_spin call made for a wheel returned True, n calls
\* with k distinct user_ids that are not None, the report that
\* get_wheel_analytics then gives for the wheel has total_spins = n,
\* unique_users = k and, for every winner named by a payload, one
\* winner_distribution row whose count is the number of calls naming it.
C7_ReportCountsSuccessfulSpins ==
  \A p \in Procs, w \in WheelIds :
    (Quiescent /\ ret[p].op = "get_wheel_analytics" /\ ret[p].request = w) =>
      LET spins == { i \in DOMAIN history :
                       /\ history[i].call.event_type = "wheel_spin"
                       /\ history[i].call.wheel_id = w }
          users == { history[i].call.user_id : i \in spins } \ {None}
          named(i) == Get(history[i].call.event_data, "winner", None)
          report == ret[p].value
      IN (spins # {} /\ \A i \in spins : history[i].returned) =>
           /\ "metrics" \in DOMAIN report
           /\ report.metrics.total_spins = Cardinality(spins)
           /\ report.metrics.unique_users = Cardinality(users)
           /\ \A i \in spins :
                Truthy(named(i)) =>
                  \E j \in DOMAIN report.winner_distribution :
                    /\ report.winner_distribution[j].winner = named(i)
                    /\ report.winner_distribution[j].count =
                         Cardinality({ k \in spins : named(k) = named(i) })

\* the step is the return of a call of process p
Returns(p) == ret'[p].op # ret[p].op \/ ret'[p] # ret[p]

\* C8: a get_wheel_analytics or get_global_analytics call leaves the four
\* tables as they are, and get_wheel_analytics for a wheel without a
\* metrics row returns the payload {'error': 'Wheel not found'}.
C8_ReadsWriteNothing ==
  [][\A p \in Procs :
       (Returns(p) /\ ret'[p].op \in {"get_wheel_analytics",
                                      "get_global_analytics"}) =>
         /\ UNCHANGED tables
         /\ (/\ ret'[p].op = "get_wheel_analytics"
             /\ ret'[p].request \notin DOMAIN wheel_metrics)
            => ret'[p].value = [error |-> "Wheel not found"]]_vars

\* the report asked for a wheel that has no metrics row, other wheels
\* having theirs
C8_Witness ==
  /\ ret["p1"].op = "get_wheel_analytics"
  /\ ret["p1"].request \notin DOMAIN wheel_metrics
  /\ DOMAIN ret["p1"].value = {"error"}
  /\ DOMAIN wheel_metrics # {}
  /\ Len(events) >= 2

(***************************************************************************)
(* Properties of the two cell checks                                       *)
(***************************************************************************)
\* lit in cell, whatever the case of the cell's letters
ContainsCI(c, lit) == \E i \in DOMAIN c : HasAtCI(c, i, lit)

\* C9: a non-empty cell is classified by the first rule that matches: its
\* trimmed form starting with =, +, - or @ gives dangerous_prefix_ and that
\* character, whatever else the cell holds; else a denylisted keyword in
\* it, in any case, gives dangerous_function_ and a keyword it holds; else
\* the shape '=' letters '(' gives formula_pattern; else no risk.
C9_FirstMatchingRule ==
  (injection_check # NotRun /\ cell # <<>>) =>
    \A trimmed \in {Strip(cell)} :
      LET starts == { ch \in {"=", "+", "-", "@"} :
                        trimmed # <<>> /\ trimmed[1] = ch }
          keywords == { k \in DOMAIN DANGEROUS_FUNCTIONS :
                          ContainsCI(cell, DANGEROUS_FUNCTIONS[k]) }
      IN IF starts # {}
         THEN \E ch \in starts :
                Tag("dangerous_prefix_", <<ch>>) = injection_check
         ELSE IF keywords # {}
         THEN \E k \in keywords :
                Tag("dangerous_function_", DANGEROUS_FUNCTIONS[k]) =
                  injection_check
         ELSE IF FormulaPattern(cell)
         THEN Tag("formula_pattern", <<>>) = injection_check
         ELSE injection_check = None

\* the cell +CMD, tagged by its prefix
C9_Witness ==
  /\ cell = <<"+", "C", "M", "D">>
  /\ Tag("dangerous_prefix_", <<"+">>) = injection_check

\* C10: a non-empty cell that matches the patterns is tagged
\* xss_pattern_detected; one that does not, and whose decoded form differs
\* from it and matches, is tagged encoded_xss_payload; and neither tag is
\* given in any other case.
C10_DirectThenDecoded ==
  (xss_check # NotRun /\ cell # <<>>) =>
    \A decoded \in {unescape(cell)} :
      LET direct == XssSearch(cell)
          encoded == ~direct /\ decoded # cell /\ XssSearch(decoded)
      IN /\ direct <=> Tag("xss_pattern_detected", <<>>) = xss_check
         /\ encoded <=> Tag("encoded_xss_payload", <<>>) = xss_check

\* the cell javascript&colon;, which only its decoded form gives away
C10_Witness ==
  /\ cell = <<"j","a","v","a","s","c","r","i","p","t",
              "&","c","o","l","o","n",";">>
  /\ ~XssSearch(cell)
  /\ Tag("encoded_xss_payload", <<>>) = xss_check

(***************************************************************************)
(* Properties of _check_xss_payload's character heuristic and of           *)
(* sanitize_cell_content                                                   *)
(***************************************************************************)
\* the number of positions of c that hold one of the seven characters
Occurrences(c) ==
  Cardinality({ i \in DOMAIN c : c[i] \in suspicious_chars })

\* C11: a cell that matches no XSS pattern, neither as it is nor decoded,
\* is tagged suspicious_character_sequence exactly when more than 3 of its
\* positions hold one of the characters < > " ' & % \, and gets no XSS
\* risk when 3 or fewer do.
C11_FlaggedByOccurrences ==
  (xss_check # NotRun /\ ~XssSearch(cell) /\ ~XssSearch(unescape(cell))) =>
    IF Occurrences(cell) > 3
    THEN Tag("suspicious_character_sequence", <<>>) = xss_check
    ELSE xss_check = None

Count(s, ch) == Cardinality({ i \in DOMAIN s : s[i] = ch })
RawMarkup == {"<", ">", "\"", "'"}
\* the prefixes a stripped text can start with
StartsWithPrefix(t) ==
  \E k \in DOMAIN DANGEROUS_PREFIXES : StartsWith(t, DANGEROUS_PREFIXES[k])

\* C12: the string sanitize_cell_content returns holds no '<', no '>' and
\* no quote character; and for a cell whose trimmed form begins with '='
\* that '=' is gone from the result: the result has fewer '=' than the
\* cell, and when what follows the '=' (trimmed) starts with no prefix of
\* its own, the result is what sanitizing that remainder alone gives.
C12_SanitizedHasNoRawMarkup ==
  \A n \in DOMAIN sanitized :
    LET s == sanitized[n]
        t == Strip(cell)
    IN /\ \A j \in DOMAIN s : s[j] \notin RawMarkup
       /\ StartsWith(t, <<"=">>) =>
            LET rest == Strip(Tail(t)) IN
            /\ Count(s, "=") < Count(cell, "=")
            /\ ~StartsWithPrefix(rest) => s = sanitize_cell_content(rest)

\* sanitize_cell_content("=cmd|' /C calc'!A0") has returned
\* "cmd|&#x27; /C calc&#x27;!A0"
C12_Witness ==
  /\ cell = <<"=","c","m","d","|","'"," ","/","C"," ","c","a","l","c","'",
              "!","A","0">>
  /\ sanitized = << <<"c","m","d","|","&","#","x","2","7",";"," ","/","C",
                     " ","c","a","l","c","&","#","x","2","7",";","!","A",
                     "0">> >>

(***************************************************************************)
(* Properties of the structural limits                                     *)
(***************************************************************************)
\* the risk the result names (None: the result is valid)
RiskOf(r) == IF r.valid THEN None ELSE r.security_risk
\* the result got past _validate_csv_structure
PassedStructure(r) == RiskOf(r) \in {None, "content_threats"}
TooWide(rows) == \E r \in DOMAIN rows : Len(rows[r]) > max_columns
TooLong(rows) == Len(rows) > max_rows

\* C13 as stated: for content within the size limit and with an accepted
\* filename, a row of more than 50 columns gives excessive_columns, more
\* than 10,000 rows give excessive_rows, and content with at most 50
\* columns in every row and at most 10,000 rows passes the structural
\* pass.
C13_StructuralLimitsExact ==
  (vpc = "done" /\ ReachesContentPass) =>
    \A parsed \in {ParseCsv(content)} :
      /\ TooWide(parsed.rows) => RiskOf(result) = "excessive_columns"
      /\ TooLong(parsed.rows) => RiskOf(result) = "excessive_rows"
      /\ (~TooWide(parsed.rows) /\ ~TooLong(parsed.rows)) =>
           PassedStructure(result)

\* C13, amended: for content within the size limit, with an accepted
\* filename, and which the CSV parser reads without an error: a row of
\* more than 50 columns gives excessive_columns; more than 10,000 rows,
\* none of them of more than 50 columns, give excessive_rows; and content
\* of at least one row, with at most 50 columns in every row and at most
\* 10,000 rows, passes the structural pass.
C13_StructuralLimits ==
  (vpc = "done" /\ ReachesContentPass) =>
    \A parsed \in {ParseCsv(content)} :
      parsed.ok =>
        /\ TooWide(parsed.rows) => RiskOf(result) = "excessive_columns"
        /\ (TooLong(parsed.rows) /\ ~TooWide(parsed.rows)) =>
             RiskOf(result) = "excessive_rows"
        /\ (parsed.rows # <<>> /\ ~TooWide(parsed.rows)
              /\ ~TooLong(parsed.rows)) => PassedStructure(result)

\* 10,001 rows, refused with excessive_rows
C13_Witness ==
  /\ vpc = "done"
  /\ ReachesContentPass
  /\ content = Repeat("\n", max_rows + 1)
  /\ RiskOf(result) = "excessive_rows"

(***************************************************************************)
(* Properties of process_secure_csv                                        *)
(***************************************************************************)
\* the sanitized values of the entry column in the rows after the header,
\* one per row (the empty string for a row that is too short)
EntryColumnValues ==
  LET rows == ParseCsv(content).rows
      column ==
        entry_column([c \in DOMAIN rows[1] |->
                        sanitize_cell_content(rows[1][c])])
  IN [k \in 1..(Len(rows) - 1) |->
        IF Len(rows[k + 1]) >= column
        THEN sanitize_cell_content(rows[k + 1][column])
        ELSE <<>>]
NonEmpty(text) == text # <<>>
Trimmed(values) == [k \in DOMAIN values |-> Strip(values[k])]
\* what C14 says of the counts and the hash of a successful result
CountsAndHash(out) ==
  /\ out.valid_entries = Len(out.entries)
  /\ out.valid_entries <= out.total_rows
  /\ out.total_rows = Len(ParseCsv(content).rows) - 1
  /\ out.file_hash = result.file_hash

\* C14 as stated: when validation fails process_secure_csv returns the
\* result of validate_file_security as it is, without entries; when it
\* succeeds the result has success = true, entries equal to the non-empty
\* sanitized values of the entry column in the rows after the header, in
\* row order, valid_entries = number of entries <= total_rows = number of
\* rows - 1, and the file_hash validate_file_security computed.
C14_EntriesAreSanitizedValues ==
  (vpc = "done" /\ processed # <<>>) =>
    LET out == processed[1] IN
    IF ~result.valid
    THEN out = result /\ "entries" \notin DOMAIN out
    ELSE /\ "success" \in DOMAIN out /\ out.success
         /\ out.entries = SelectSeq(EntryColumnValues, NonEmpty)
         /\ CountsAndHash(out)

\* C14, amended: the same, the entries being the sanitized values of the
\* entry column with the surrounding whitespace trimmed off, those that
\* are empty after the trimming left out.
C14_EntriesAreTrimmedValues ==
  (vpc = "done" /\ processed # <<>>) =>
    LET out == processed[1] IN
    IF ~result.valid
    THEN out = result /\ "entries" \notin DOMAIN out
    ELSE /\ "success" \in DOMAIN out /\ out.success
         /\ out.entries = SelectSeq(Trimmed(EntryColumnValues), NonEmpty)
         /\ CountsAndHash(out)

\* the content of the rows "x,Item" and "a, a" processed: one data row,
\* the entry "a" taken, trimmed, from the second column
C14_Witness ==
  /\ vpc = "done"
  /\ result.valid
  /\ processed # <<>>
  /\ "success" \in DOMAIN processed[1]
  /\ content = <<"x", ",", "I", "t", "e", "m", "\n", "a", ",", " ", "a">>
  /\ processed[1].entries = << <<"a">> >>
  /\ processed[1].total_rows = 1

(***************************************************************************)
(* Properties of validate_csv_file                                         *)
(***************************************************************************)
\* the columns of the header row named entry or name, whatever the case:
\* as they are written, and with the surrounding whitespace ignored
NamedColumns(header) ==
  { j \in DOMAIN header : Lower(header[j]) \in required_headers }
TrimmedNamedColumns(header) ==
  { j \in DOMAIN header : Lower(Strip(header[j])) \in required_headers }
\* the trimmed value a row has in a column (empty: the row is too short)
ValueIn(row, j) == IF j <= Len(row) THEN Strip(row[j]) ELSE <<>>
BlankRow(row) == \A c \in DOMAIN row : Strip(row[c]) = <<>>
\* the rows of S in increasing order
Ascending(S) ==
  LET step(acc, i) == IF i \in S THEN Append(acc, i) ELSE acc
  IN FoldRange(step, <<>>, 1, IF S = {} THEN 0 ELSE Max(S))
\* a valid result out, read against the data rows 'considered' and the
\* entry column j: one warning for every considered row whose value is
\* missing or too long, one entry for every other considered row, both in
\* row order
RowsAccounted(out, rows, considered, j) ==
  LET rejected == { r \in considered :
                      \/ ValueIn(rows[r], j) = <<>>
                      \/ Len(ValueIn(rows[r], j)) > max_entry_length }
      warned == Ascending(rejected)
      kept == Ascending(considered \ rejected)
  IN /\ Len(out.errors) = Len(warned)
     /\ \A k \in DOMAIN warned : out.errors[k][1] = warned[k]
     /\ Len(out.entries) = Len(kept)
     /\ \A k \in DOMAIN kept : out.entries[k] = ValueIn(rows[kept[k]], j)
     /\ out.entries # <<>>
     /\ \A k \in DOMAIN out.entries :
          /\ out.entries[k] = Strip(out.entries[k])
          /\ out.entries[k] # <<>>
          /\ Len(out.entries[k]) <= max_entry_length
     /\ out.valid_entries = Len(out.entries)
     /\ out.total_rows = Len(rows) - 1
     /\ out.valid_entries + Len(out.errors) <= out.total_rows

\* C15 as stated: validate_csv_file returns valid = true only if the
\* header row has a column named entry or name (in any case) and at least
\* one data row yields an entry; every data row whose entry value is
\* missing or longer than 100 characters adds one warning and is skipped,
\* the later rows still being processed; the entries are the trimmed,
\* non-empty values of at most 100 characters of the other rows, in row
\* order; valid_entries plus the number of warnings is at most total_rows.
C15_WarningForEveryRejectedRow ==
  \A n \in DOMAIN validation :
    validation[n].valid =>
      LET rows == ParseCsv(csv_content).rows IN
      /\ NamedColumns(rows[1]) # {}
      /\ RowsAccounted(validation[n], rows, 2..Len(rows),
                       Min(NamedColumns(rows[1])))

\* C15, amended: the same with the header names read with their
\* surrounding whitespace ignored, and with the warning owed only by the
\* data rows that are not blank: a data row without cells, or whose cells
\* are all empty or whitespace, is skipped without a warning.
C15_WarningForEveryRejectedNonBlankRow ==
  \A n \in DOMAIN validation :
    validation[n].valid =>
      LET rows == ParseCsv(csv_content).rows IN
      /\ TrimmedNamedColumns(rows[1]) # {}
      /\ RowsAccounted(validation[n], rows,
                       { r \in 2..Len(rows) : ~BlankRow(rows[r]) },
                       Min(TrimmedNamedColumns(rows[1])))

\* a valid result with three warnings, for rows 2, 4 and 7, and the one
\* entry of row 3, rows 5 and 6 being blank
C15_Witness ==
  /\ validation # <<>>
  /\ validation[1].valid
  /\ validation[1].entries = << <<"b">> >>
  /\ validation[1].total_rows = 6
  /\ validation[1].errors = << <<2, "Missing entry name">>,
                               <<4, "Missing entry name">>,
                               <<7, "Entry name too long">> >>

(***************************************************************************)
(* Properties of validate_data_integrity                                   *)
(***************************************************************************)
\* the values that occur in a list
Values(list) == { v \in EntryNames : \E i \in DOMAIN list : list[i] = v }
One == <<1, 1>>

\* C16: the report passes exactly when the two lists hold the same values,
\* whatever their order and their duplicates; so for a non-empty list X
\* the report on (X, X) has passed = true, integrity_score = 1.0 and no
\* missing and no extra entries.
C16_PassedIffSameValues ==
  \A n \in DOMAIN integrity :
    LET report == integrity[n] IN
    /\ report.passed <=> Values(original_data) = Values(processed_data)
    /\ (original_data # <<>> /\ processed_data = original_data) =>
         /\ report.passed
         /\ report.integrity_score = One
         /\ report.missing_entries = {}
         /\ report.extra_entries = {}

\* the list ['a', 'b', 'a'] checked against itself: the report passes
C16_Witness ==
  /\ original_data = << <<"a">>, <<"b">>, <<"a">> >>
  /\ processed_data = original_data
  /\ integrity # <<>>
  /\ integrity[1].passed
  /\ integrity[1].integrity_score = One

\* C17: missing_entries is set(original) minus set(processed),
\* extra_entries is set(processed) minus set(original), integrity_score is
\* the number of shared values over the number of values of original, and
\* 1.0 when original is empty; so the score lies between 0 and 1, is 1.0
\* exactly when nothing is missing, and is 1.0 whenever passed is true.
C17_ScoreIsSharedOverOriginal ==
  \A n \in DOMAIN integrity :
    LET report == integrity[n]
        O == Values(original_data)
        P == Values(processed_data)
        score == report.integrity_score
    IN /\ report.missing_entries = O \ P
       /\ report.extra_entries = P \ O
       /\ score[2] > 0 /\ 0 <= score[1] /\ score[1] <= score[2]
       /\ IF original_data = <<>> THEN score = One
          ELSE score[1] * Cardinality(O) = score[2] * Cardinality(O \cap P)
       /\ score = One <=> report.missing_entries = {}
       /\ report.passed => score = One

\* the lists ['a'] and ['a', 'b']: the score is 1.0 and the report does
\* not pass, 'b' being extra
C17_Witness ==
  /\ original_data = << <<"a">> >>
  /\ processed_data = << <<"a">>, <<"b">> >>
  /\ integrity # <<>>
  /\ integrity[1].integrity_score = One
  /\ ~integrity[1].passed
  /\ integrity[1].extra_entries = { <<"b">> }

(***************************************************************************)
(* Properties of the metrics update                                        *)
(***************************************************************************)
\* the step is the return of a record_event call of p whose metrics update
\* was committed
Applied(p) ==
  /\ pc[p] = "metrics"
  /\ pc'[p] = "idle"
  /\ history'[Len(history')].updated
\* the call is a wheel_spin for a wheel
IsSpin(c) == c.event_type = "wheel_spin" /\ Truthy(c.wheel_id)
NamedWinner(c) == Get(c.event_data, "winner", None)

\* C18: an applied wheel_spin update sets the wheel's total_entries to the
\* payload's total_entries when the payload has that field, and leaves
\* the stored total_entries as it was when the payload has none.
C18_TotalEntriesKeptWhenAbsent ==
  [][\A p \in Procs :
       (Applied(p) /\ IsSpin(args[p])) =>
         LET w == args[p].wheel_id
             data == args[p].event_data
         IN IF "total_entries" \in DOMAIN data
            THEN wheel_metrics'[w].total_entries = data.total_entries
            ELSE w \in DOMAIN wheel_metrics =>
                   wheel_metrics'[w].total_entries =
                     wheel_metrics[w].total_entries]_vars

RECURSIVE SumOver(_, _)
SumOver(f, S) ==
  IF S = {} THEN 0
  ELSE LET x == CHOOSE y \in S : TRUE IN f[x] + SumOver(f, S \ {x})
\* the sum of the frequency_counts of a wheel
CountsOf(wf, w) == SumOver(wf, { key \in DOMAIN wf : key[1] = w })
\* the applied spins of a wheel that named a winner
AppliedWins(w) ==
  { i \in DOMAIN history :
      /\ history[i].updated
      /\ IsSpin(history[i].call)
      /\ history[i].call.wheel_id = w
      /\ Truthy(NamedWinner(history[i].call)) }

\* C19: an applied wheel_spin update that names a non-empty winner adds
\* exactly 1 to the frequency_count of (wheel_id, winner), the row
\* starting at 1, and leaves every other count as it was; an applied
\* update without a winner, and every other step, changes no row; and for
\* every wheel the counts add up to the number of applied spins that named
\* a winner, which is at most the wheel's total_spins.
C19_WinnerCountsByOne ==
  [](\A w \in { c.wheel_id : c \in Calls } :
       /\ CountsOf(winner_frequency, w) = Cardinality(AppliedWins(w))
       /\ CountsOf(winner_frequency, w) <=
            (IF w \in DOMAIN wheel_metrics
             THEN wheel_metrics[w].total_spins ELSE 0))
  /\ [][IF \E p \in Procs :
             /\ Applied(p) /\ IsSpin(args[p])
             /\ Truthy(NamedWinner(args[p]))
        THEN \E p \in Procs :
               LET key == <<args[p].wheel_id, NamedWinner(args[p])>> IN
               /\ Applied(p)
               /\ DOMAIN winner_frequency' = DOMAIN winner_frequency \cup {key}
               /\ winner_frequency'[key] =
                    (IF key \in DOMAIN winner_frequency
                     THEN winner_frequency[key] ELSE 0) + 1
               /\ \A other \in DOMAIN winner_frequency \ {key} :
                    winner_frequency'[other] = winner_frequency[other]
        ELSE winner_frequency' = winner_frequency]_vars

\* Alice has won twice on wheel w1 and Bob once, in three applied spins
C19_Witness ==
  /\ <<"w1", "Alice">> \in DOMAIN winner_frequency
  /\ <<"w1", "Bob">> \in DOMAIN winner_frequency
  /\ winner_frequency[<<"w1", "Alice">>] = 2
  /\ winner_frequency[<<"w1", "Bob">>] = 1
  /\ wheel_metrics["w1"].total_spins = 3


\* the call names a user and a session
Engaged(c) == Truthy(c.user_id) /\ Truthy(c.session_id)

\* C20: user_engagement holds one row per (user_id, session_id) pair; an
\* applied event of a pair sets the row's last_visit to the time of the
\* update, sets first_visit to that time only when the pair had no row
\* and keeps it otherwise; no other step changes or removes a row; and
\* first_visit <= last_visit holds of every row in every reachable state.
C20_FirstVisitOnceLastVisitAlways ==
  [](\A key \in DOMAIN user_engagement :
       /\ user_engagement[key].first_visit <= user_engagement[key].last_visit
       /\ user_engagement[key].last_visit <= clock)
  /\ [][IF \E p \in Procs : Applied(p) /\ Engaged(args[p])
        THEN \E p \in Procs :
               LET key == <<args[p].user_id, args[p].session_id>> IN
               /\ Applied(p)
               /\ DOMAIN user_engagement' = DOMAIN user_engagement \cup {key}
               /\ user_engagement'[key].last_visit = clock
               /\ user_engagement'[key].first_visit =
                    (IF key \in DOMAIN user_engagement
                     THEN user_engagement[key].first_visit ELSE clock)
               /\ \A other \in DOMAIN user_engagement \ {key} :
                    user_engagement'[other] = user_engagement[other]
        ELSE user_engagement' = user_engagement]_vars

\* the pair (u1, s1) had its first applied event at time 0 and its third at
\* time 2
C20_Witness ==
  /\ <<"u1", "s1">> \in DOMAIN user_engagement
  /\ user_engagement[<<"u1", "s1">>].first_visit = 0
  /\ user_engagement[<<"u1", "s1">>].last_visit = 2
  /\ user_engagement[<<"u1", "s1">>].engagement_score = 3


\* the applied events of a (user_id, session_id) pair
AppliedEvents(key) ==
  { i \in DOMAIN history :
      /\ history[i].updated
      /\ Engaged(history[i].call)
      /\ <<history[i].call.user_id, history[i].call.session_id>> = key }
OldEngagement(key, field) ==
  IF key \in DOMAIN user_engagement THEN user_engagement[key][field] ELSE 0

\* C21: an applied event with user_id and session_id adds exactly 1 to the
\* pair's engagement_score whatever its type, 1 to total_spins exactly when
\* the type is wheel_spin and 1 to total_wheels_created exactly when it is
\* wheel_created; and in every state engagement_score is the number of
\* applied events of the pair and total_spins + total_wheels_created is at
\* most engagement_score.
C21_EngagementCounters ==
  [](\A key \in DOMAIN user_engagement :
       /\ user_engagement[key].engagement_score =
            Cardinality(AppliedEvents(key))
       /\ user_engagement[key].total_spins +
            user_engagement[key].total_wheels_created <=
              user_engagement[key].engagement_score)
  /\ [][\A p \in Procs :
          (Applied(p) /\ Engaged(args[p])) =>
            LET key == <<args[p].user_id, args[p].session_id>>
                type == args[p].event_type
            IN /\ user_engagement'[key].engagement_score =
                    OldEngagement(key, "engagement_score") + 1
               /\ user_engagement'[key].total_spins =
                    OldEngagement(key, "total_spins") +
                      (IF type = "wheel_spin" THEN 1 ELSE 0)
               /\ user_engagement'[key].total_wheels_created =
                    OldEngagement(key, "total_wheels_created") +
                      (IF type = "wheel_created" THEN 1 ELSE 0)]_vars

\* the pair (u1, s1) has had a spin, a creation and a page view applied
C21_Witness ==
  /\ <<"u1", "s1">> \in DOMAIN user_engagement
  /\ user_engagement[<<"u1", "s1">>].engagement_score = 3
  /\ user_engagement[<<"u1", "s1">>].total_spins = 1
  /\ user_engagement[<<"u1", "s1">>].total_wheels_created = 1


(***************************************************************************)
(* Properties of verify_data_integrity                                     *)
(***************************************************************************)
\* the serialization of a mapping with its keys in ascending order
Canonical(d) == <<"json", ItemsOf(d)>>

\* C22: verify_data_integrity(data, expected_hash) returns a boolean, which
\* is true exactly when data can be serialized and expected_hash is the
\* SHA-256 of the serialization of data with its keys sorted; a dict with
\* the same items in another order gets the same answer for the same
\* expected_hash; and the answer is false when data cannot be serialized.
C22_TrueIffCanonicalHash ==
  \A p \in Procs :
    ret[p].op = "verify_data_integrity" =>
      LET data == ret[p].request[1]
          expected_hash == ret[p].request[2]
      IN /\ ret[p].value \in BOOLEAN
         /\ ret[p].value =
              (/\ Serializable(DictOf(data))
               /\ Sha256(Canonical(DictOf(data))) = expected_hash)
         /\ \A other \in VerifyItems :
              DictOf(other) = DictOf(data) =>
                verify_data_integrity(other, expected_hash) = ret[p].value
         /\ ~Serializable(DictOf(data)) => ret[p].value = FALSE

\* a dict whose keys were inserted in descending order is verified against
\* the hash of its sorted serialization
C22_Witness ==
  /\ ret["p1"].op = "verify_data_integrity"
  /\ << <<"b", "Alice">>, <<"a", "Bob">> >> = ret["p1"].request[1]
  /\ Sha256(Canonical([a |-> "Bob", b |-> "Alice"])) = ret["p1"].request[2]
  /\ ret["p1"].value = TRUE


(***************************************************************************)
(* Properties of the public operations as a whole                          *)
(***************************************************************************)
\* C23: no public operation ends by raising an exception: whatever its
\* argument, an export_entries_csv call that has ended has returned a value.
C23_NoOperationRaises ==
  exported # <<>> => exported[1].outcome = "returned"


\* C27: the string sanitize_cell_content returns never begins with '=',
\* '+', '-' or '@', whatever prefix characters the cell begins with.
C27_NoLeadingFormulaPrefix ==
  \A n \in DOMAIN sanitized :
    sanitized[n] # <<>> => sanitized[n][1] \notin {"=", "+", "-", "@"}


\* the table at the rows of keys
Restrict(table, keys) == [key \in keys |-> table[key]]

\* C25: an applied update of an event that is not a wheel_spin, or has no
\* wheel_id, leaves wheel_metrics and winner_frequency as they are; one of
\* an event without user_id or without session_id leaves user_engagement
\* as it is; an applied spin of a wheel leaves the wheel_metrics and
\* winner_frequency rows of every other wheel as they are; and
\* get_wheel_analytics answers 'Wheel not found' for a wheel none of whose
\* spins has been applied.
C25_OnlySelectedTablesChange ==
  [](\A p \in Procs :
       (/\ ret[p].op = "get_wheel_analytics"
        /\ \A i \in DOMAIN history :
             ~(/\ history[i].updated
               /\ IsSpin(history[i].call)
               /\ history[i].call.wheel_id = ret[p].request))
       => ret[p].value = [error |-> "Wheel not found"])
  /\ [][\A p \in Procs :
          Applied(p) =>
            /\ ~IsSpin(args[p]) =>
                 UNCHANGED <<wheel_metrics, winner_frequency>>
            /\ ~Engaged(args[p]) => UNCHANGED user_engagement
            /\ IsSpin(args[p]) =>
                 LET others == DOMAIN wheel_metrics \ {args[p].wheel_id}
                     rows == { key \in DOMAIN winner_frequency :
                                 key[1] # args[p].wheel_id }
                 IN /\ DOMAIN wheel_metrics' \ {args[p].wheel_id} = others
                    /\ Restrict(wheel_metrics', others) =
                         Restrict(wheel_metrics, others)
                    /\ { key \in DOMAIN winner_frequency' :
                           key[1] # args[p].wheel_id } = rows
                    /\ Restrict(winner_frequency', rows) =
                         Restrict(winner_frequency, rows)]_vars

\* wheel w1 has had a wheel_created event applied and wheel w2 a spin, and
\* get_wheel_analytics('w1') has answered that there is no such wheel
C25_Witness ==
  /\ ret["p1"].op = "get_wheel_analytics"
  /\ ret["p1"].request = "w1"
  /\ [error |-> "Wheel not found"] = ret["p1"].value
  /\ \E i \in DOMAIN history :
       /\ history[i].updated
       /\ history[i].call.event_type = "wheel_created"
       /\ history[i].call.wheel_id = "w1"
  /\ "w2" \in DOMAIN wheel_metrics
  /\ DOMAIN user_engagement # {}


\* the step is the end of the metrics update of p, applied or not
UpdateEnds(p) == pc[p] = "metrics" /\ pc'[p] = "idle"

\* C28: the metrics update of an event either makes every change the event
\* calls for (the wheel_metrics row for a spin, the winner_frequency row
\* for a spin with a winner, the user_engagement row for an event with
\* user_id and session_id) or, when it fails at any statement, leaves the
\* three tables as they were.
C28_AllOrNothing ==
  [][\A p \in Procs :
       UpdateEnds(p) =>
         \/ UNCHANGED <<wheel_metrics, winner_frequency, user_engagement>>
         \/ /\ (wheel_metrics' # wheel_metrics) = IsSpin(args[p])
            /\ (winner_frequency' # winner_frequency) =
                 (IsSpin(args[p]) /\ Truthy(NamedWinner(args[p])))
            /\ (user_engagement' # user_engagement) = Engaged(args[p])]_vars

\* the update of a spin whose winner cannot be bound has failed at its
\* second statement, and neither the wheel's row nor the user's is there
C28_Witness ==
  /\ Len(history) = 1
  /\ history[1].inserted /\ ~history[1].updated
  /\ history[1].call.wheel_id = "w1"
  /\ history[1].call.user_id = "u2"
  /\ ListValue = NamedWinner(history[1].call)
  /\ DOMAIN wheel_metrics = {}
  /\ DOMAIN winner_frequency = {}
  /\ DOMAIN user_engagement = {}
  /\ Len(events) = 1


(***************************************************************************)
(* Properties of record_event under concurrency                            *)
(***************************************************************************)
\* C24: in every state, between the two commits of a call, after a crash
\* between them, after a failed update and under every interleaving of two
\* callers, the total_spins of a wheel is at most the number of wheel_spin
\* events of that wheel in the log.
C24_AggregatesNeverAhead ==
  \A w \in DOMAIN wheel_metrics :
    wheel_metrics[w].total_spins <= Cardinality(SpinEvents(events, w))

\* of three spins of wheel w1 in the log one has been applied, one was cut
\* off by a crash, and the third is between its two commits
C24_Witness ==
  /\ "w1" \in DOMAIN wheel_metrics
  /\ wheel_metrics["w1"].total_spins = 1
  /\ Cardinality(SpinEvents(events, "w1")) = 3
  /\ \E i \in DOMAIN history : history[i].inserted /\ ~history[i].returned
  /\ \E p \in Procs : pc[p] = "metrics"


\* every call has returned, and the insert and the metrics update of every
\* call have been committed
AllCommitted ==
  /\ \A p \in Procs : pc[p] = "idle"
  /\ \A i \in DOMAIN history : history[i].inserted /\ history[i].updated
\* the spins of a wheel among the calls that have ended
SpinCalls(w) ==
  { i \in DOMAIN history :
      IsSpin(history[i].call) /\ history[i].call.wheel_id = w }

\* C26: once all of the N record_event('wheel_spin') calls made on a
\* wheel, in whatever interleaving, have returned with their insert and
\* their update committed, the wheel's total_spins is N and its
\* unique_users is the number of distinct non-null user_ids of the
\* wheel's wheel_spin events in the log.
C26_NoLostUpdate ==
  AllCommitted =>
    \A w \in { c.wheel_id : c \in ConcurrentCalls } :
      SpinCalls(w) # {} =>
        /\ w \in DOMAIN wheel_metrics
        /\ wheel_metrics[w].total_spins = Cardinality(SpinCalls(w))
        /\ wheel_metrics[w].unique_users = DistinctUsers(events, w)

\* two callers spun wheel w1 at once, u1's insert coming first and u2's
\* update coming first; then u1 spun again: three spins, two users
C26_Witness ==
  /\ AllCommitted
  /\ Len(history) = 3
  /\ events[1].user_id = "u1" /\ events[2].user_id = "u2"
  /\ history[1].call.user_id = "u2" /\ history[2].call.user_id = "u1"
  /\ history[3].call.user_id = "u1"
  /\ wheel_metrics["w1"].total_spins = 3
  /\ wheel_metrics["w1"].unique_users = 2

\* C29: in every state every wheel_metrics row has unique_users <=
\* total_spins.
C29_UsersAtMostSpins ==
  \A w \in DOMAIN wheel_metrics :
    wheel_metrics[w].unique_users <= wheel_metrics[w].total_spins


(***************************************************************************)
(* Properties of the wheel routes                                          *)
(***************************************************************************)
\* the SpinResult rows stored for a wheel
SpinResultsOf(id) ==
  { i \in DOMAIN spin_result_rows : spin_result_rows[i].wheel_id = id }

\* C30: in every state, whatever the order and the interleaving of the
\* record_spin requests, the spin_count of every wheel is the number of
\* SpinResult rows stored for it.
C30_SpinCountIsResultCount ==
  \A s \in DOMAIN wheel_rows :
    wheel_rows[s].spin_count = Cardinality(SpinResultsOf(wheel_rows[s].id))

=============================================================================
